---- MODULE Spec2Model ----
(***************************************************************************)
(* State-machine model of the ip_tracking application:                     *)
(*   - RateLimitMiddleware   (rate_limit_middleware.py)                    *)
(*   - IPTrackingMiddleware  (middleware.py)                               *)
(*   - the periodic tasks    (tasks.py)                                    *)
(*   - the operator commands (management/commands/block_ip.py, ...)        *)
(* Time is the wall clock in whole seconds (int(time.time())).             *)
(***************************************************************************)
EXTENDS Integers, Sequences, FiniteSets, TLC

(***************************************************************************)
(* Bounds of the model.                                                    *)
(***************************************************************************)
MaxRequests == 3
MaxSeqRequests == 12
NumInstants == 4

(***************************************************************************)
(* Program constants of the rate limiter.                                  *)
(***************************************************************************)
authenticated_limit == 10
anonymous_limit == 5
window_size == 60
CacheGrace == 10

RateProcs == {1, 2}
RateIPs == {"ip1"}
Anonymous == "anonymous"
RateUsers == {Anonymous, "u1"}

\* Paths are sequences of segments: "/api/login/" is <<"api", "login">>.
skip_paths == {<<"health">>, <<"static">>, <<"media">>, <<"admin", "jsi18n">>}
RatePaths == {<<"health">>, <<"api", "test-rate-limit">>}

\* The instants (seconds) at which the model observes the clock, in order; the
\* first NumInstants of them are used.
InstantList == <<0, 59, 60, 70, 61, 1, 119, 120, 130>>
Instants == {InstantList[i] : i \in 1..NumInstants}

VARIABLES
    now,        \* wall clock, seconds
    cache,      \* django cache: key -> [data: list of timestamps, expires: time]
    rl,         \* per request handler: position and locals of process_request
    allowed,    \* history: key -> timestamps of the calls that returned True
    writes,     \* history: key -> number of cache.set calls so far
    started,    \* history: requests started
    blocked,    \* BlockedIP table: set of rows
    log,        \* RequestLog table: <<ip, path, timestamp>> -> number of rows
    flags,      \* SuspiciousIP table: set of rows
    nextId,     \* SuspiciousIP primary key sequence
    tm,         \* per request handler: position and locals of IPTrackingMiddleware
    cp,         \* per worker: position and locals of monitor_suspicious_ips
    sw,         \* position and locals of cleanup_old_suspicious_flags
    runs,       \* history: numbers of requests, passes, sweeps and commands started
    es          \* per worker: position and locals of auto_block_suspicious_ips

rateVars == <<cache, rl, allowed, writes, started>>
dbVars == <<blocked, log, flags, nextId, tm, cp, sw, runs, es>>
vars == <<now, cache, rl, allowed, writes, started,
          blocked, log, flags, nextId, tm, cp, sw, runs, es>>

(***************************************************************************)
(* Helpers.                                                                *)
(***************************************************************************)
\* str.startswith on segment sequences
StartsWith(path, prefix) ==
    /\ Len(prefix) <= Len(path)
    /\ SubSeq(path, 1, Len(prefix)) = prefix

\* number of elements of a sequence satisfying x > lo
CountAfter(s, lo) == Cardinality({i \in DOMAIN s : s[i] > lo})

\* a limiter without exemptions
never_skip_rate_limit(path) == FALSE

\* RateLimitMiddleware.should_skip_rate_limit
should_skip_rate_limit(path) == \E sp \in skip_paths : StartsWith(path, sp)

\* one key per client address, whatever the scope
CacheKeyByAddress(user, ip) == <<"rate_limit_anon", ip>>

\* the cache key and the limit chosen by process_request
CacheKey(user, ip) ==
    IF user # Anonymous THEN <<"rate_limit_auth", user, ip>>
                        ELSE <<"rate_limit_anon", ip>>

LimitOf(user) == IF user # Anonymous THEN authenticated_limit ELSE anonymous_limit

RateKeys == {CacheKey(u, ip) : u \in RateUsers, ip \in RateIPs}

KeyLimit(k) == IF k[1] = "rate_limit_auth" THEN authenticated_limit ELSE anonymous_limit

NoEntry == [data |-> <<>>, expires |-> 0]

\* cache.get(key, []): the default when the entry is absent or has expired
CacheGet(k) == IF cache[k].expires > now THEN cache[k].data ELSE <<>>

\* a cache.set whose entry expires before the window ends
CacheSetShortLived(k, value, timeout) ==
    cache' = [cache EXCEPT ![k] = [data |-> value, expires |-> now + window_size - 1]]

\* cache.set(key, value, timeout)
CacheSet(k, value, timeout) ==
    cache' = [cache EXCEPT ![k] = [data |-> value, expires |-> now + timeout]]

\* a check that keeps every stored request
PruneNothing(data, t) == data

\* the list comprehension of check_rate_limit: drop requests older than the window
PruneWindow(data, t) == SelectSeq(data, LAMBDA req_time : req_time > t - window_size)

IdleHandler == [pc |-> "idle", key |-> <<>>, limit |-> 0, t |-> 0, data |-> <<>>,
                ver |-> 0, n |-> 0, result |-> "none", err |-> FALSE, path |-> <<>>]

\* s with t inserted, s sorted ascending
SortedInsert(s, t) ==
    LET n == Cardinality({i \in DOMAIN s : s[i] <= t})
    IN  SubSeq(s, 1, n) \o <<t>> \o SubSeq(s, n + 1, Len(s))

Record(k, t) == allowed' = [allowed EXCEPT ![k] = SortedInsert(@, t)]

Repeat(x, n) == [i \in 1..n |-> x]

\* the tables and workers of the database side, empty and idle
IdleTracker == [pc |-> "idle", ip |-> "", path |-> <<>>, answer |-> "none",
                err |-> FALSE, row |-> FALSE, response |-> 0, view |-> FALSE,
                logged |-> FALSE]

IdlePass == [pc |-> "idle", since |-> 0, det |-> 0, pidx |-> 0, items |-> {},
             cur |-> <<>>, obj |-> <<>>, flagged |-> <<{}, {}, {}, {}, {}>>,
             upd |-> {}]

IdleSweep == [pc |-> "idle", cutoff |-> 0, count |-> 0]

NoRuns == [requests |-> 0, passes |-> 0, sweeps |-> 0, commands |-> 0]

IdleEscalation == [pc |-> "idle", before |-> {}, selected |-> {}, items |-> {},
                   cur |-> "", reasons |-> {}, blocked_count |-> 0, inserted |-> {},
                   error |-> FALSE, ran |-> 0]

TMProcs == {1, 2}
PassProcs == {1, 2}
EscProcs == {1, 2}

DbEmpty ==
    /\ blocked = {}
    /\ log = <<>>
    /\ flags = {}
    /\ nextId = 1
    /\ tm = [p \in TMProcs |-> IdleTracker]
    /\ cp = [p \in PassProcs |-> IdlePass]
    /\ sw = IdleSweep
    /\ runs = NoRuns
    /\ es = [p \in EscProcs |-> IdleEscalation]

\* the rate limiter's state, empty and idle
RateEmpty ==
    /\ cache = [k \in RateKeys |-> NoEntry]
    /\ rl = [p \in RateProcs |-> IdleHandler]
    /\ allowed = [k \in RateKeys |-> <<>>]
    /\ writes = [k \in RateKeys |-> 0]
    /\ started = 0

(***************************************************************************)
(* Initial states.  InitRate: an empty cache, idle handlers.               *)
(* InitRateFilled: the state after n admitted requests on each key at      *)
(* time 0, n being one less than the key's limit.                          *)
(***************************************************************************)
InitRate ==
    /\ now = 0
    /\ RateEmpty
    /\ DbEmpty

InitFills(k) == {KeyLimit(k) - 1}

InitRateFilled ==
    /\ now = 0
    /\ \E fill \in [RateKeys -> 0..authenticated_limit] :
          /\ \A k \in RateKeys : fill[k] \in InitFills(k)
          /\ cache = [k \in RateKeys |->
                        IF fill[k] = 0 THEN NoEntry
                        ELSE [data |-> Repeat(0, fill[k]),
                              expires |-> window_size + CacheGrace]]
          /\ allowed = [k \in RateKeys |-> Repeat(0, fill[k])]
          /\ writes = [k \in RateKeys |-> fill[k]]
    /\ rl = [p \in RateProcs |-> IdleHandler]
    /\ started = 0
    /\ DbEmpty

(***************************************************************************)
(* RateLimitMiddleware.process_request, up to the call of check_rate_limit *)
(***************************************************************************)
RLStart(p, user, ip, path, maxReq) ==
    /\ rl[p].pc = "idle"
    /\ started < maxReq
    /\ started' = started + 1
    /\ IF should_skip_rate_limit(path)
       THEN rl' = [rl EXCEPT ![p] = [IdleHandler EXCEPT !.result = "skip", !.path = path,
                                                        !.key = CacheKey(user, ip)]]
       ELSE rl' = [rl EXCEPT ![p] = [IdleHandler EXCEPT !.pc = "clock", !.path = path,
                                                        !.key = CacheKey(user, ip),
                                                        !.limit = LimitOf(user)]]
    /\ UNCHANGED <<now, cache, allowed, writes>>
    /\ UNCHANGED dbVars

\* check_rate_limit: now = int(time.time())
RLClock(p) ==
    /\ rl[p].pc = "clock"
    /\ rl' = [rl EXCEPT ![p].pc = "get", ![p].t = now]
    /\ UNCHANGED <<now, cache, allowed, writes, started>>
    /\ UNCHANGED dbVars

\* check_rate_limit: requests_data = cache.get(cache_key, [])
RLGet(p) ==
    /\ rl[p].pc = "get"
    /\ rl' = [rl EXCEPT ![p].pc = "decide", ![p].data = CacheGet(rl[p].key),
                        ![p].ver = writes[rl[p].key]]
    /\ UNCHANGED <<now, cache, allowed, writes, started>>
    /\ UNCHANGED dbVars

\* a fail-closed except clause
FailClosedResult == "reject"

\* what the except clause of check_rate_limit returns
FailOpenResult == "allow"

\* check_rate_limit: cache.get raises; the except clause answers
RLGetFail(p) ==
    /\ rl[p].pc = "get"
    /\ rl' = [rl EXCEPT ![p].pc = "idle", ![p].result = FailOpenResult, ![p].err = TRUE]
    /\ IF FailOpenResult = "allow" THEN Record(rl[p].key, rl[p].t) ELSE UNCHANGED allowed
    /\ UNCHANGED <<now, cache, writes, started>>
    /\ UNCHANGED dbVars

\* a check that never finds the window full
OverLimitNever(pruned, limit) == FALSE

\* an off-by-one comparison with the limit
OverLimitStrict(pruned, limit) == Len(pruned) > limit

\* check_rate_limit: if len(requests_data) >= limit
OverLimit(pruned, limit) == Len(pruned) >= limit

\* a rejecting branch that restarts the window of the stored requests
RejectStoreRestart(k, pruned) ==
    /\ CacheSet(k, [i \in DOMAIN pruned |-> now], window_size + CacheGrace)
    /\ UNCHANGED writes

\* a rejecting branch that persists the pruned list before it returns
RejectStorePersist(k, pruned) ==
    /\ CacheSet(k, pruned, window_size + CacheGrace)
    /\ UNCHANGED writes

\* the rejecting branch of check_rate_limit leaves the cache alone
RejectStore(k, pruned) == UNCHANGED <<cache, writes>>

\* check_rate_limit: prune, compare with the limit, append and cache.set
RLDecide(p) ==
    LET k == rl[p].key
        pruned == PruneWindow(rl[p].data, rl[p].t)
    IN  /\ rl[p].pc = "decide"
        /\ IF OverLimit(pruned, rl[p].limit)
           THEN /\ rl' = [rl EXCEPT ![p].pc = "idle", ![p].result = "reject",
                                     ![p].data = <<>>, ![p].t = 0, ![p].n = Len(pruned)]
                /\ RejectStore(k, pruned)
                /\ UNCHANGED allowed
           ELSE /\ CacheSet(k, Append(pruned, rl[p].t), window_size + CacheGrace)
                /\ writes' = [writes EXCEPT ![k] = @ + 1]
                /\ rl' = [rl EXCEPT ![p].pc = "idle", ![p].result = "allow",
                                     ![p].data = <<>>, ![p].t = 0, ![p].n = Len(pruned)]
                /\ Record(k, rl[p].t)
        /\ UNCHANGED <<now, started>>
        /\ UNCHANGED dbVars

\* check_rate_limit: cache.set raises; the except clause answers
RLSetFail(p) ==
    LET pruned == PruneWindow(rl[p].data, rl[p].t)
    IN  /\ rl[p].pc = "decide"
        /\ ~OverLimit(pruned, rl[p].limit)
        /\ rl' = [rl EXCEPT ![p].pc = "idle", ![p].result = FailOpenResult, ![p].err = TRUE,
                            ![p].data = <<>>, ![p].t = 0, ![p].n = Len(pruned)]
        /\ IF FailOpenResult = "allow" THEN Record(rl[p].key, rl[p].t) ELSE UNCHANGED allowed
        /\ UNCHANGED <<now, cache, writes, started>>
        /\ UNCHANGED dbVars

\* the clock advances to a later instant
RateTick(t) ==
    /\ t > now
    /\ now' = t
    /\ UNCHANGED <<cache, rl, allowed, writes, started>>
    /\ UNCHANGED dbVars

(***************************************************************************)
(* Specifications of the rate limiter.                                     *)
(***************************************************************************)
\* concurrent handlers, the cache backend may fail
NextRate ==
    \/ \E p \in RateProcs, u \in RateUsers, ip \in RateIPs, path \in RatePaths :
          RLStart(p, u, ip, path, MaxRequests)
    \/ \E p \in RateProcs : RLClock(p)
    \/ \E p \in RateProcs : RLGet(p)
    \/ \E p \in RateProcs : RLGetFail(p)
    \/ \E p \in RateProcs : RLDecide(p)
    \/ \E p \in RateProcs : RLSetFail(p)
    \/ \E t \in Instants : RateTick(t)

SpecRate == InitRateFilled /\ [][NextRate]_vars

\* concurrent handlers, the cache backend never fails
NextRateHealthy ==
    \/ \E p \in RateProcs, u \in RateUsers, ip \in RateIPs, path \in RatePaths :
          RLStart(p, u, ip, path, MaxRequests)
    \/ \E p \in RateProcs : RLClock(p)
    \/ \E p \in RateProcs : RLGet(p)
    \/ \E p \in RateProcs : RLDecide(p)
    \/ \E t \in Instants : RateTick(t)

SpecRateHealthy == InitRateFilled /\ [][NextRateHealthy]_vars

\* concurrent handlers on both keys of one address within one second
NextRateKeys ==
    \/ \E p \in RateProcs, u \in RateUsers, ip \in RateIPs, path \in RatePaths :
          RLStart(p, u, ip, path, MaxRequests)
    \/ \E p \in RateProcs : RLClock(p)
    \/ \E p \in RateProcs : RLGet(p)
    \/ \E p \in RateProcs : RLGetFail(p)
    \/ \E p \in RateProcs : RLDecide(p)
    \/ \E p \in RateProcs : RLSetFail(p)

SpecRateKeys == InitRateFilled /\ [][NextRateKeys]_vars

\* concurrent anonymous handlers of one address while the clock advances
NextRateWindow ==
    \/ \E p \in RateProcs, ip \in RateIPs :
          RLStart(p, Anonymous, ip, <<"api", "test-rate-limit">>, MaxRequests)
    \/ \E p \in RateProcs : RLClock(p)
    \/ \E p \in RateProcs : RLGet(p)
    \/ \E p \in RateProcs : RLDecide(p)
    \/ \E t \in Instants : RateTick(t)

SpecRateWindow == InitRateFilled /\ [][NextRateWindow]_vars

\* the clock advances between two requests of the sequential client
SeqTick(t) == rl[1].pc = "idle" /\ RateTick(t)

\* one client sending its requests one after the other, as the test command does;
\* each request is answered within the second in which it is sent
NextRateSeq ==
    \/ \E u \in RateUsers, ip \in RateIPs, path \in RatePaths :
          /\ rl[1].key \in {<<>>, CacheKey(u, ip)}
          /\ RLStart(1, u, ip, path, MaxSeqRequests)
    \/ RLClock(1)
    \/ RLGet(1)
    \/ RLDecide(1)
    \/ \E t \in Instants : SeqTick(t)

SpecRateSeq == InitRate /\ [][NextRateSeq]_vars

(***************************************************************************)
(* IPTrackingMiddleware (middleware.py) and the operator commands.         *)
(***************************************************************************)
MaxGateRequests == 2
MaxCommands == 2

TrackIPs == {"ip1", "ip2"}
GatePaths == {<<"health">>, <<"api", "test-rate-limit">>}
OperatorReasons == {"", "abuse"}

\* a request as the middleware sees it: the X-Forwarded-For list and REMOTE_ADDR
GateRequests ==
    {[xff |-> x, remote |-> r, path |-> pa] :
        x \in {<<>>} \cup {<<i>> : i \in TrackIPs}, r \in TrackIPs, pa \in GatePaths}

\* IPTrackingMiddleware.get_client_ip
get_client_ip(req) == IF req.xff # <<>> THEN req.xff[1] ELSE req.remote

\* an existence check that forgets the filter on the address
BlockedExistsAny(ip) == blocked # {}

\* an existence check that never finds a row
BlockedExistsNever(ip) == FALSE

\* an existence check that looks for the rows of the other addresses
BlockedExistsOther(ip) == \E r \in blocked : r.ip # ip

\* BlockedIP.objects.filter(ip_address=ip_address).exists()
BlockedExists(ip) == \E r \in blocked : r.ip = ip

\* a gate that fails closed
GateErrorAnswerClosed == TRUE

\* what is_ip_blocked answers when the query raises
GateErrorAnswer == FALSE

\* a table without the unique constraint
BlockedNotConstrained(ip) == TRUE

\* the unique constraint on BlockedIP.ip_address
BlockedUnique(ip) == ~BlockedExists(ip)

\* INSERT of a BlockedIP row; the caller has checked BlockedUnique
BlockedInsert(ip, reason) ==
    blocked' = blocked \cup {[ip |-> ip, reason |-> reason, created_at |-> now]}

\* the log with one more row
LogAdd(l, k) == IF k \in DOMAIN l THEN [l EXCEPT ![k] = @ + 1] ELSE l @@ (k :> 1)

\* __call__: get_client_ip and is_ip_blocked; a blocked IP gets the 403 at once
TMCheck(p, req, maxReq) ==
    LET ip == get_client_ip(req)
        isBlocked == BlockedExists(ip)
    IN  /\ tm[p].pc = "idle"
        /\ runs.requests < maxReq
        /\ runs' = [runs EXCEPT !.requests = @ + 1]
        /\ tm' = [tm EXCEPT ![p] =
                    [IdleTracker EXCEPT !.ip = ip, !.path = req.path,
                        !.row = (\E r \in blocked : r.ip = ip),
                        !.answer = IF isBlocked THEN "blocked" ELSE "pass",
                        !.response = IF isBlocked THEN 403 ELSE 0,
                        !.pc = IF isBlocked THEN "idle" ELSE "log"]]
        /\ UNCHANGED <<now, blocked, log, flags, nextId, cp, sw, es>>
        /\ UNCHANGED rateVars

\* __call__: the query of is_ip_blocked raises; the except clause answers
TMCheckFail(p, req, maxReq) ==
    LET ip == get_client_ip(req)
        isBlocked == GateErrorAnswer
    IN  /\ tm[p].pc = "idle"
        /\ runs.requests < maxReq
        /\ runs' = [runs EXCEPT !.requests = @ + 1]
        /\ tm' = [tm EXCEPT ![p] =
                    [IdleTracker EXCEPT !.ip = ip, !.path = req.path,
                        !.row = (\E r \in blocked : r.ip = ip), !.err = TRUE,
                        !.answer = IF isBlocked THEN "blocked" ELSE "pass",
                        !.response = IF isBlocked THEN 403 ELSE 0,
                        !.pc = IF isBlocked THEN "idle" ELSE "log"]]
        /\ UNCHANGED <<now, blocked, log, flags, nextId, cp, sw, es>>
        /\ UNCHANGED rateVars

\* process_request: RequestLog.objects.create(...)
TMLog(p) ==
    /\ tm[p].pc = "log"
    /\ log' = LogAdd(log, <<tm[p].ip, tm[p].path, now>>)
    /\ tm' = [tm EXCEPT ![p].pc = "view", ![p].logged = TRUE]
    /\ UNCHANGED <<now, blocked, flags, nextId, cp, sw, runs, es>>
    /\ UNCHANGED rateVars

\* process_request: the create raises; the error is logged and swallowed
TMLogFail(p) ==
    /\ tm[p].pc = "log"
    /\ tm' = [tm EXCEPT ![p].pc = "view"]
    /\ UNCHANGED <<now, blocked, log, flags, nextId, cp, sw, runs, es>>
    /\ UNCHANGED rateVars

\* __call__: response = self.get_response(request)
TMView(p) ==
    /\ tm[p].pc = "view"
    /\ tm' = [tm EXCEPT ![p].pc = "idle", ![p].view = TRUE, ![p].response = 200]
    /\ UNCHANGED <<now, blocked, log, flags, nextId, cp, sw, runs, es>>
    /\ UNCHANGED rateVars

\* block_ip command: get_or_create, and with --force the update of the reason
BlockCommand(ip, reason, force) ==
    /\ runs.commands < MaxCommands
    /\ runs' = [runs EXCEPT !.commands = @ + 1]
    /\ IF BlockedUnique(ip)
       THEN BlockedInsert(ip, reason)
       ELSE IF force
            THEN blocked' = {IF r.ip = ip THEN [r EXCEPT !.reason = reason] ELSE r :
                                r \in blocked}
            ELSE UNCHANGED blocked
    /\ UNCHANGED <<now, log, flags, nextId, tm, cp, sw, es>>
    /\ UNCHANGED rateVars

\* unblock_ip command: filter(...).first() and delete()
UnblockCommand(ip) ==
    /\ runs.commands < MaxCommands
    /\ runs' = [runs EXCEPT !.commands = @ + 1]
    /\ blocked' = {r \in blocked : r.ip # ip}
    /\ UNCHANGED <<now, log, flags, nextId, tm, cp, sw, es>>
    /\ UNCHANGED rateVars

InitGate ==
    /\ now = 0
    /\ RateEmpty
    /\ DbEmpty

NextGate ==
    \/ \E p \in TMProcs, req \in GateRequests : TMCheck(p, req, MaxGateRequests)
    \/ \E p \in TMProcs, req \in GateRequests : TMCheckFail(p, req, MaxGateRequests)
    \/ \E p \in TMProcs : TMLog(p)
    \/ \E p \in TMProcs : TMLogFail(p)
    \/ \E p \in TMProcs : TMView(p)
    \/ \E ip \in TrackIPs, reason \in OperatorReasons, force \in BOOLEAN :
          BlockCommand(ip, reason, force)
    \/ \E ip \in TrackIPs : UnblockCommand(ip)

SpecGate == InitGate /\ [][NextGate]_vars

\* requests without X-Forwarded-For to two paths the rate limiter exempts and
\* to one it does not
ExemptGateRequests ==
    {[xff |-> <<>>, remote |-> r, path |-> pa] :
        r \in TrackIPs,
        pa \in {<<"health">>, <<"static", "css">>, <<"api", "test-rate-limit">>}}

NextGatePaths ==
    \/ \E p \in TMProcs, req \in ExemptGateRequests : TMCheck(p, req, MaxGateRequests)
    \/ \E p \in TMProcs, req \in ExemptGateRequests : TMCheckFail(p, req, MaxGateRequests)
    \/ \E p \in TMProcs : TMLog(p)
    \/ \E p \in TMProcs : TMLogFail(p)
    \/ \E p \in TMProcs : TMView(p)
    \/ \E ip \in TrackIPs : BlockCommand(ip, "abuse", FALSE)
    \/ \E ip \in TrackIPs : UnblockCommand(ip)

SpecGatePaths == InitGate /\ [][NextGatePaths]_vars

(***************************************************************************)
(* The periodic tasks (tasks.py): monitor_suspicious_ips and its five      *)
(* detectors, cleanup_old_suspicious_flags.                                *)
(***************************************************************************)
MaxPasses == 2
MaxSweeps == 1
MaxAppends == 4
NumBatchInstants == 2

Hour == 3600
Day == 86400
RetentionDays == 7
HighVolumeThreshold == 100
SensitiveThreshold == 5
LoginThreshold == 10
AdminThreshold == 3
BruteForceThreshold == 200

\* SuspiciousIP.SUSPICIOUS_REASONS, in the order monitor_suspicious_ips runs
\* the detectors
Reasons == <<"high_volume", "sensitive_paths", "failed_logins", "admin_access",
             "brute_force">>
NumDetectors == Len(Reasons)

\* check_sensitive_path_access: sensitive_paths
sensitive_paths == << <<"admin">>, <<"api", "login">>, <<"api", "dashboard">>,
                      <<"api", "profile">>, <<"admin", "login">> >>

\* the instants (seconds) at which the database side observes the clock
BatchInstantList == <<0, 1, Hour + 1, RetentionDays * Day + 1>>
BatchInstants == {BatchInstantList[i] : i \in 1..NumBatchInstants}

RECURSIVE SumOver(_, _)
\* the sum of f over the finite set S
SumOver(S, f) ==
    IF S = {} THEN 0
    ELSE LET x == CHOOSE y \in S : TRUE IN f[x] + SumOver(S \ {x}, f)

\* path filters that compare the whole path
PathMatchExact(det, pidx, path) ==
    CASE det = 2 -> path = sensitive_paths[pidx]
      [] det = 3 -> path = <<"api", "login">>
      [] det = 4 -> path = <<"admin">>
      [] OTHER -> TRUE

\* the path filter of detector det (for the sensitive-path detector, of its
\* pidx-th path)
PathMatch(det, pidx, path) ==
    CASE det = 2 -> StartsWith(path, sensitive_paths[pidx])
      [] det = 3 -> path = <<"api", "login">>
      [] det = 4 -> StartsWith(path, <<"admin">>)
      [] OTHER -> TRUE

\* filter(timestamp__gte=since_time, ...).values('ip_address').annotate(Count('id'))
LogCount(ip, since, det, pidx) ==
    SumOver({k \in DOMAIN log : k[1] = ip /\ k[3] >= since /\ PathMatch(det, pidx, k[2])},
            log)

Threshold(det) ==
    CASE det = 1 -> HighVolumeThreshold
      [] det = 2 -> SensitiveThreshold
      [] det = 3 -> LoginThreshold
      [] det = 4 -> AdminThreshold
      [] OTHER -> BruteForceThreshold

\* a threshold that is met, not exceeded
OverThresholdInclusive(count, det) == count >= Threshold(det)

\* .filter(request_count__gt=...)
OverThreshold(count, det) == count > Threshold(det)

\* the rows of a detector's query
QueryItems(det, pidx, since) ==
    {[ip |-> ip, count |-> LogCount(ip, since, det, pidx)] :
        ip \in {i \in {k[1] : k \in DOMAIN log} :
                   OverThreshold(LogCount(i, since, det, pidx), det)}}

\* the details text of a flag: the detector, the path it names and the count
Details(det, pidx, count) ==
    [kind |-> Reasons[det], path |-> IF det = 2 THEN sensitive_paths[pidx] ELSE <<>>,
     count |-> count]

FlagRows(ip, reason) == {r \in flags : r.ip = ip /\ r.reason = reason}

\* a table without the constraint
NoUniqueViolation(ip, reason) == FALSE

\* unique_together = ['ip_address', 'reason']: the INSERT raises IntegrityError
UniqueViolation(ip, reason) == FlagRows(ip, reason) # {}

\* the row SuspiciousIP.objects.create builds from the defaults of get_or_create
NewFlag(id, ip, det, pidx, count) ==
    [id |-> id, ip |-> ip, reason |-> Reasons[det], details |-> Details(det, pidx, count),
     request_count |-> count, first_seen |-> now, last_seen |-> now, is_active |-> TRUE]

\* an update that adds the new count to the stored one
RefreshedAccumulating(obj, det, pidx, count) ==
    [obj EXCEPT !.details = Details(det, pidx, count),
                !.request_count = obj.request_count + count,
                !.is_active = TRUE, !.last_seen = now]

\* an update that forgets to set is_active
RefreshedKeepState(obj, det, pidx, count) ==
    [obj EXCEPT !.details = Details(det, pidx, count), !.request_count = count,
                !.last_seen = now]

\* the "if not created" branch: the fields assigned, and save() with auto_now
Refreshed(obj, det, pidx, count) ==
    [obj EXCEPT !.details = Details(det, pidx, count), !.request_count = count,
                !.is_active = TRUE, !.last_seen = now]

\* an UPDATE that also activates the other rows of the object's address
SaveRowByAddress(obj) ==
    {IF r.ip = obj.ip THEN [r EXCEPT !.is_active = TRUE] ELSE r :
        r \in {q \in flags : q.id # obj.id}} \cup {obj}

\* a save that writes every field but is_active
SaveRowKeepActive(obj) ==
    (flags \ {r \in flags : r.id = obj.id})
        \cup {[obj EXCEPT !.is_active = r.is_active] : r \in {q \in flags : q.id = obj.id}}

\* a save that replaces the row by a fresh one
SaveRowAsNew(obj) ==
    (flags \ {r \in flags : r.id = obj.id}) \cup {[obj EXCEPT !.first_seen = now]}

\* Model.save(): UPDATE of every field of the row with the object's primary key
SaveRow(obj) == (flags \ {r \in flags : r.id = obj.id}) \cup {obj}

\* a pass that calls the failed-login detector right after the high-volume one
AdvanceSkipping(c) ==
    IF c.det = 1 THEN [c EXCEPT !.pc = "query", !.det = 3, !.pidx = 1]
    ELSE IF c.det < NumDetectors
         THEN [c EXCEPT !.pc = "query", !.det = c.det + 1, !.pidx = 1]
         ELSE [c EXCEPT !.pc = "done", !.det = 0, !.pidx = 0]

\* the position after the query or the last item of detector (det, pidx)
Advance(c) ==
    IF c.det = 2 /\ c.pidx < Len(sensitive_paths)
    THEN [c EXCEPT !.pc = "query", !.pidx = c.pidx + 1]
    ELSE IF c.det < NumDetectors
         THEN [c EXCEPT !.pc = "query", !.det = c.det + 1, !.pidx = 1]
         ELSE [c EXCEPT !.pc = "done", !.det = 0, !.pidx = 0]

\* the position after an item
AfterItem(c) == IF c.items = {} THEN Advance(c) ELSE [c EXCEPT !.pc = "item"]

\* a detector that returns its list without the address
FlagForgotten(c, ip) == [c EXCEPT !.cur = <<>>, !.obj = <<>>]

\* flagged_ips.append(ip_address)
Flag(c, ip) == [c EXCEPT !.flagged[c.det] = @ \cup {ip}, !.cur = <<>>, !.obj = <<>>]

\* monitor_suspicious_ips: the dictionary it returns
Summary(c) ==
    LET n == [d \in 1..NumDetectors |-> Cardinality(c.flagged[d])]
    IN  [high_volume |-> n[1], sensitive_paths |-> n[2], failed_logins |-> n[3],
         admin_access |-> n[4], brute_force |-> n[5],
         total |-> n[1] + n[2] + n[3] + n[4] + n[5]]

\* monitor_suspicious_ips: one_hour_ago = timezone.now() - timedelta(hours=1)
PassStart(p) ==
    /\ cp[p].pc \in {"idle", "done", "failed"}
    /\ runs.passes < MaxPasses
    /\ runs' = [runs EXCEPT !.passes = @ + 1]
    /\ cp' = [cp EXCEPT ![p] = [IdlePass EXCEPT !.pc = "query", !.since = now - Hour,
                                                !.det = 1, !.pidx = 1]]
    /\ UNCHANGED <<now, blocked, log, flags, nextId, tm, sw, es>>
    /\ UNCHANGED rateVars

\* a detector evaluates its query when the for loop starts
PassQuery(p) ==
    LET c == cp[p]
        got == [c EXCEPT !.items = QueryItems(c.det, c.pidx, c.since)]
    IN  /\ c.pc = "query"
        /\ cp' = [cp EXCEPT ![p] = AfterItem(got)]
        /\ UNCHANGED <<now, blocked, log, flags, nextId, tm, sw, runs, es>>
        /\ UNCHANGED rateVars

\* a query of the running detector raises: the detector's exception leaves
\* monitor_suspicious_ips through "except: raise", the later detectors are
\* not called
PassFail(p) ==
    /\ cp[p].pc \in {"query", "item", "get", "create", "save"}
    /\ cp' = [cp EXCEPT ![p].pc = "failed", ![p].items = {}, ![p].cur = <<>>,
                         ![p].obj = <<>>]
    /\ UNCHANGED <<now, blocked, log, flags, nextId, tm, sw, runs, es>>
    /\ UNCHANGED rateVars

\* the SELECT of get_or_create for item it
GetFlag(c, it) ==
    LET found == FlagRows(it.ip, Reasons[c.det])
    IN  IF found # {}
        THEN [c EXCEPT !.pc = "save", !.cur = it, !.items = c.items \ {it},
                       !.obj = CHOOSE r \in found : TRUE]
        ELSE [c EXCEPT !.pc = "create", !.cur = it, !.items = c.items \ {it}]

\* a brute-force detector that does not look for the high_volume row
HighVolumeFlagIgnored(ip) == FALSE

\* check_brute_force_patterns: is there a high_volume row for this address
HasHighVolumeFlag(ip) == FlagRows(ip, "high_volume") # {}

\* check_brute_force_patterns: the next item and the exists() on high_volume
PassExists(p) ==
    /\ cp[p].pc = "item"
    /\ cp[p].det = NumDetectors
    /\ \E it \in cp[p].items :
          cp' = [cp EXCEPT ![p] =
                   IF HasHighVolumeFlag(it.ip)
                   THEN AfterItem([cp[p] EXCEPT !.items = cp[p].items \ {it}])
                   ELSE [cp[p] EXCEPT !.pc = "get", !.cur = it,
                                      !.items = cp[p].items \ {it}]]
    /\ UNCHANGED <<now, blocked, log, flags, nextId, tm, sw, runs, es>>
    /\ UNCHANGED rateVars

\* the SELECT of get_or_create: for detectors 1 to 4 on the next item of the
\* loop, for the brute-force detector on the item that passed the exists()
PassGet(p) ==
    /\ \/ cp[p].pc = "item" /\ cp[p].det # NumDetectors
       \/ cp[p].pc = "get"
    /\ \E it \in (IF cp[p].pc = "get" THEN {cp[p].cur} ELSE cp[p].items) :
          cp' = [cp EXCEPT ![p] = GetFlag(cp[p], it)]
    /\ UNCHANGED <<now, blocked, log, flags, nextId, tm, sw, runs, es>>
    /\ UNCHANGED rateVars

\* get_or_create: the INSERT; on IntegrityError the row is read again
PassCreate(p) ==
    LET c == cp[p]
        ip == c.cur.ip
    IN  /\ c.pc = "create"
        /\ IF UniqueViolation(ip, Reasons[c.det])
           THEN /\ cp' = [cp EXCEPT ![p] =
                            [c EXCEPT !.pc = "save",
                                      !.obj = CHOOSE r \in FlagRows(ip, Reasons[c.det]) : TRUE]]
                /\ UNCHANGED <<flags, nextId>>
           ELSE /\ flags' = flags \cup {NewFlag(nextId, ip, c.det, c.pidx, c.cur.count)}
                /\ nextId' = nextId + 1
                /\ cp' = [cp EXCEPT ![p] = AfterItem(Flag(c, ip))]
        /\ UNCHANGED <<now, blocked, log, tm, sw, runs, es>>
        /\ UNCHANGED rateVars

\* the "if not created" branch: assign the fields and save()
PassSave(p) ==
    LET c == cp[p]
        ip == c.cur.ip
        before == {r \in flags : r.id = c.obj.id}
        note == {[ip |-> ip, reason |-> r.reason, was_active |-> r.is_active,
                  old_count |-> r.request_count, new_count |-> c.cur.count] : r \in before}
    IN  /\ c.pc = "save"
        /\ flags' = SaveRow(Refreshed(c.obj, c.det, c.pidx, c.cur.count))
        /\ cp' = [cp EXCEPT ![p] = AfterItem(Flag([c EXCEPT !.upd = @ \cup note], ip))]
        /\ UNCHANGED <<now, blocked, log, nextId, tm, sw, runs, es>>
        /\ UNCHANGED rateVars

\* a filter that forgets the cutoff
OldFlagsAnyAge(cutoff) == {r \in flags : r.is_active}

\* cleanup_old_suspicious_flags: the cutoff and old_flags.count()
OldFlags(cutoff) == {r \in flags : r.last_seen < cutoff /\ r.is_active}

SweepCount ==
    /\ sw.pc = "idle"
    /\ runs.sweeps < MaxSweeps
    /\ runs' = [runs EXCEPT !.sweeps = @ + 1]
    /\ sw' = [pc |-> "update", cutoff |-> now - RetentionDays * Day,
              count |-> Cardinality(OldFlags(now - RetentionDays * Day))]
    /\ UNCHANGED <<now, blocked, log, flags, nextId, tm, cp, es>>
    /\ UNCHANGED rateVars

\* cleanup_old_suspicious_flags: old_flags.update(is_active=False)
SweepUpdate ==
    /\ sw.pc = "update"
    /\ flags' = {IF r \in OldFlags(sw.cutoff) THEN [r EXCEPT !.is_active = FALSE] ELSE r :
                    r \in flags}
    /\ sw' = [sw EXCEPT !.pc = "idle"]
    /\ UNCHANGED <<now, blocked, log, nextId, tm, cp, runs, es>>
    /\ UNCHANGED rateVars

\* the clock of the database side advances to a later instant
BatchTick(t) ==
    /\ t > now
    /\ now' = t
    /\ UNCHANGED dbVars
    /\ UNCHANGED rateVars

(***************************************************************************)
(* The escalator (tasks.py): auto_block_suspicious_ips.                    *)
(***************************************************************************)
MaxEscalations == 2

EscalationThreshold == 3

\* dict(SuspiciousIP.SUSPICIOUS_REASONS)
ReasonLabel ==
    ("high_volume" :> "High Request Volume")
        @@ ("sensitive_paths" :> "Accessing Sensitive Paths")
        @@ ("failed_logins" :> "Multiple Failed Login Attempts")
        @@ ("admin_access" :> "Admin Panel Access Attempts")
        @@ ("brute_force" :> "Brute Force Attack Pattern")

\* a count that forgets the filter on is_active
FlagCountAny(ip) == Cardinality({f \in flags : f.ip = ip})

\* filter(is_active=True).values('ip_address').annotate(flag_count=Count('reason'))
FlagCount(ip) == Cardinality({f \in flags : f.ip = ip /\ f.is_active})

\* .filter(flag_count__gte=3)
SeverelySuspicious ==
    {ip \in {f.ip : f \in flags} : FlagCount(ip) >= EscalationThreshold}

\* a run that takes every address for blocked
EscEverBlocked(ip) == TRUE

\* a run that skips the existence check
EscNeverBlocked(ip) == FALSE

\* BlockedIP.objects.filter(ip_address=ip_address).exists()
EscAlreadyBlocked(ip) == BlockedExists(ip)

\* the reasons of every flag of the address, active or not
AllReasons(ip) == {f.reason : f \in {g \in flags : g.ip = ip}}

\* filter(ip_address=ip_address, is_active=True).values_list('reason', flat=True)
ActiveReasons(ip) == {f.reason : f \in {g \in flags : g.ip = ip /\ g.is_active}}

\* the row BlockedIP.objects.create builds: the fixed text and the joined labels
AutoBlockRow(ip, reasons) ==
    [ip |-> ip, reason |-> "Auto-blocked due to multiple suspicious activities",
     labels |-> {ReasonLabel[r] : r \in reasons}, created_at |-> now]

\* an INSERT that replaces the table
BlockedReplacedBy(row) == {row}

\* the Block List after BlockedIP.objects.create
BlockedWith(row) == blocked \cup {row}

\* the position after an item of the escalator's loop
AfterEscItem(e) ==
    IF e.items = {} THEN [e EXCEPT !.pc = "done", !.cur = "", !.reasons = {}]
    ELSE [e EXCEPT !.pc = "item", !.cur = "", !.reasons = {}]

EscRuns == es[1].ran + es[2].ran

\* auto_block_suspicious_ips: blocked_count = 0 and the query, evaluated when
\* the for loop starts
EscQuery(p) ==
    /\ es[p].pc \in {"idle", "done", "failed"}
    /\ EscRuns < MaxEscalations
    /\ es' = [es EXCEPT ![p] =
                AfterEscItem([IdleEscalation EXCEPT !.before = {r.ip : r \in blocked},
                                                    !.selected = SeverelySuspicious,
                                                    !.items = SeverelySuspicious,
                                                    !.ran = es[p].ran + 1])]
    /\ UNCHANGED <<now, blocked, log, flags, nextId, tm, cp, sw, runs>>
    /\ UNCHANGED rateVars

\* the next item and the check that the address is not blocked yet
EscExists(p) ==
    /\ es[p].pc = "item"
    /\ \E ip \in es[p].items :
          es' = [es EXCEPT ![p] =
                   IF EscAlreadyBlocked(ip)
                   THEN AfterEscItem([es[p] EXCEPT !.items = es[p].items \ {ip}])
                   ELSE [es[p] EXCEPT !.pc = "reasons", !.cur = ip,
                                      !.items = es[p].items \ {ip}]]
    /\ UNCHANGED <<now, blocked, log, flags, nextId, tm, cp, sw, runs>>
    /\ UNCHANGED rateVars

\* reason_text: the reasons queryset is evaluated by the list comprehension
EscReasons(p) ==
    /\ es[p].pc = "reasons"
    /\ es' = [es EXCEPT ![p].pc = "create", ![p].reasons = ActiveReasons(es[p].cur)]
    /\ UNCHANGED <<now, blocked, log, flags, nextId, tm, cp, sw, runs>>
    /\ UNCHANGED rateVars

\* BlockedIP.objects.create: the INSERT, or IntegrityError on the unique
\* address, which the except clause logs and raises again
EscCreate(p) ==
    LET e == es[p]
    IN  /\ e.pc = "create"
        /\ IF BlockedUnique(e.cur)
           THEN /\ blocked' = BlockedWith(AutoBlockRow(e.cur, e.reasons))
                /\ es' = [es EXCEPT ![p] =
                            AfterEscItem([e EXCEPT !.blocked_count = @ + 1,
                                                   !.inserted = @ \cup {e.cur}])]
           ELSE /\ es' = [es EXCEPT ![p].pc = "failed", ![p].error = TRUE]
                /\ UNCHANGED blocked
        /\ UNCHANGED <<now, log, flags, nextId, tm, cp, sw, runs>>
        /\ UNCHANGED rateVars

(***************************************************************************)
(* Specifications of the classifier.                                       *)
(***************************************************************************)
PlainPath == <<"api", "test-rate-limit">>
AdminPath == <<"admin", "users">>
FlagRequests == {[xff |-> <<>>, remote |-> "ip1", path |-> PlainPath]}

\* IPTrackingMiddleware.__call__ run from the check to the response
TrackedRequest(p, req, maxReq) ==
    LET ip == get_client_ip(req)
        isBlocked == BlockedExists(ip)
    IN  /\ tm[p].pc = "idle"
        /\ runs.requests < maxReq
        /\ runs' = [runs EXCEPT !.requests = @ + 1]
        /\ log' = IF isBlocked THEN log ELSE LogAdd(log, <<ip, req.path, now>>)
        /\ tm' = [tm EXCEPT ![p] =
                    [IdleTracker EXCEPT !.ip = ip, !.path = req.path,
                        !.row = (\E r \in blocked : r.ip = ip),
                        !.answer = IF isBlocked THEN "blocked" ELSE "pass",
                        !.response = IF isBlocked THEN 403 ELSE 200,
                        !.view = ~isBlocked, !.logged = ~isBlocked]]
        /\ UNCHANGED <<now, blocked, flags, nextId, cp, sw, es>>
        /\ UNCHANGED rateVars

\* request logs of the last hour: ip1 made 100, 101 or 201 requests, or 101 of
\* which 6 under /admin/; ip2 made 100
InitLogs ==
    {  (<<"ip1", PlainPath, 0>> :> n) @@ (<<"ip2", PlainPath, 0>> :> HighVolumeThreshold) :
          n \in {HighVolumeThreshold, HighVolumeThreshold + 1, BruteForceThreshold + 1} }
    \cup
    {  (<<"ip1", PlainPath, 0>> :> HighVolumeThreshold - SensitiveThreshold)
         @@ (<<"ip1", AdminPath, 0>> :> SensitiveThreshold + 1)
         @@ (<<"ip2", PlainPath, 0>> :> HighVolumeThreshold) }

\* a high_volume flag last seen eight days ago
OldFlag(ip) ==
    [id |-> 1, ip |-> ip, reason |-> "high_volume",
     details |-> [kind |-> "high_volume", path |-> <<>>, count |-> 150],
     request_count |-> 150, first_seen |-> 0 - 8 * Day, last_seen |-> 0 - 8 * Day,
     is_active |-> TRUE]

InitFlags ==
    /\ now = 0
    /\ RateEmpty
    /\ blocked = {}
    /\ log \in InitLogs
    /\ \E old \in BOOLEAN :
          /\ flags = IF old THEN {OldFlag("ip1")} ELSE {}
          /\ nextId = IF old THEN 2 ELSE 1
    /\ tm = [p \in TMProcs |-> IdleTracker]
    /\ cp = [p \in PassProcs |-> IdlePass]
    /\ sw = IdleSweep
    /\ runs = NoRuns
    /\ es = [p \in EscProcs |-> IdleEscalation]

\* one worker running passes while requests append to the log and time passes
NextFlags ==
    \/ \E req \in FlagRequests : TrackedRequest(1, req, MaxAppends)
    \/ PassStart(1)
    \/ PassQuery(1)
    \/ PassGet(1)
    \/ PassExists(1)
    \/ PassCreate(1)
    \/ PassSave(1)
    \/ \E t \in BatchInstants : BatchTick(t)

SpecFlags == InitFlags /\ [][NextFlags]_vars

\* two workers running overlapping passes, and the sweep
NextFlagsRace ==
    \/ \E p \in PassProcs : PassStart(p)
    \/ \E p \in PassProcs : PassQuery(p)
    \/ \E p \in PassProcs : PassGet(p)
    \/ \E p \in PassProcs : PassExists(p)
    \/ \E p \in PassProcs : PassCreate(p)
    \/ \E p \in PassProcs : PassSave(p)
    \/ SweepCount
    \/ SweepUpdate

SpecFlagsRace == InitFlags /\ [][NextFlagsRace]_vars

(***************************************************************************)
(* Specifications of the escalator.                                        *)
(***************************************************************************)
\* a flag row written by an earlier pass, last seen age days ago
SeedFlag(id, ip, reason, age, active) ==
    [id |-> id, ip |-> ip, reason |-> reason,
     details |-> [kind |-> reason, path |-> <<>>, count |-> 0],
     request_count |-> 0, first_seen |-> 0 - age * Day, last_seen |-> 0 - age * Day,
     is_active |-> active]

\* flag stores: ip1 holds a high_volume flag last seen eight days ago, active
\* or not, two active flags last seen six days ago, and possibly a
\* failed_logins flag, active or not; ip2 holds two active flags and possibly
\* a third
EscFlagStores ==
    {  {SeedFlag(1, "ip1", "high_volume", 8, hv),
        SeedFlag(2, "ip1", "sensitive_paths", 6, TRUE),
        SeedFlag(3, "ip1", "admin_access", 6, TRUE)}
       \cup (IF fl = "none" THEN {}
             ELSE {SeedFlag(4, "ip1", "failed_logins", 6, fl = "active")})
       \cup {SeedFlag(5, "ip2", "high_volume", 6, TRUE),
             SeedFlag(6, "ip2", "sensitive_paths", 6, TRUE)}
       \cup (IF third THEN {SeedFlag(7, "ip2", "brute_force", 6, TRUE)} ELSE {}) :
          hv \in BOOLEAN, fl \in {"none", "active", "inactive"}, third \in BOOLEAN }

InitEsc ==
    /\ now = 0
    /\ RateEmpty
    /\ blocked = {}
    /\ log = <<>>
    /\ flags \in EscFlagStores
    /\ nextId = 8
    /\ tm = [p \in TMProcs |-> IdleTracker]
    /\ cp = [p \in PassProcs |-> IdlePass]
    /\ sw = IdleSweep
    /\ runs = NoRuns
    /\ es = [p \in EscProcs |-> IdleEscalation]

\* no escalation run is between its query and its end
EscQuiet == \A p \in EscProcs : es[p].pc \in {"idle", "done", "failed"}

\* the batch tasks run one after the other: a sweep starts when no escalation
\* is running, an escalation when no sweep is
SweepCountQuiet == EscQuiet /\ SweepCount
EscQueryQuiet(p) == sw.pc = "idle" /\ EscQuery(p)

\* escalation runs that may overlap each other, and the sweep between them
NextEsc ==
    \/ \E p \in EscProcs : EscQueryQuiet(p)
    \/ \E p \in EscProcs : EscExists(p)
    \/ \E p \in EscProcs : EscReasons(p)
    \/ \E p \in EscProcs : EscCreate(p)
    \/ SweepCountQuiet
    \/ SweepUpdate

SpecEsc == InitEsc /\ [][NextEsc]_vars

\* both identities are blocked: flag stores as in InitEsc
InitUnblock ==
    /\ now = 0
    /\ RateEmpty
    /\ blocked = {[ip |-> ip, reason |-> "abuse", created_at |-> 0 - Day] : ip \in TrackIPs}
    /\ log = <<>>
    /\ flags \in EscFlagStores
    /\ nextId = 8
    /\ tm = [p \in TMProcs |-> IdleTracker]
    /\ cp = [p \in PassProcs |-> IdlePass]
    /\ sw = IdleSweep
    /\ runs = NoRuns
    /\ es = [p \in EscProcs |-> IdleEscalation]

\* the operator unblocks between the runs of the periodic tasks
UnblockQuiet(ip) == EscQuiet /\ sw.pc = "idle" /\ UnblockCommand(ip)

\* the operator's unblock_ip commands, the escalation runs and the sweep, one
\* after the other
NextUnblock ==
    \/ \E ip \in TrackIPs : UnblockQuiet(ip)
    \/ EscQueryQuiet(1)
    \/ EscExists(1)
    \/ EscReasons(1)
    \/ EscCreate(1)
    \/ SweepCountQuiet
    \/ SweepUpdate

SpecUnblock == InitUnblock /\ [][NextUnblock]_vars

\* the reason the operator gives with --force
ForceReason == "policy"

\* escalation runs that may overlap each other and the operator's block_ip
\* commands: without --force with one of the usual reasons, with --force with
\* ForceReason
NextBlock ==
    \/ \E p \in EscProcs : EscQuery(p)
    \/ \E p \in EscProcs : EscExists(p)
    \/ \E p \in EscProcs : EscReasons(p)
    \/ \E p \in EscProcs : EscCreate(p)
    \/ \E ip \in TrackIPs, reason \in OperatorReasons : BlockCommand(ip, reason, FALSE)
    \/ \E ip \in TrackIPs : BlockCommand(ip, ForceReason, TRUE)

SpecBlock == InitEsc /\ [][NextBlock]_vars

\* an escalation run with the expiry sweep running at any point of it
NextEscSweep ==
    \/ EscQuery(1)
    \/ EscExists(1)
    \/ EscReasons(1)
    \/ EscCreate(1)
    \/ SweepCount
    \/ SweepUpdate

SpecEscSweep == InitEsc /\ [][NextEscSweep]_vars

\* one worker running the escalation again and again, and the sweep between
\* the runs
NextEscSeq ==
    \/ EscQueryQuiet(1)
    \/ EscExists(1)
    \/ EscReasons(1)
    \/ EscCreate(1)
    \/ SweepCountQuiet
    \/ SweepUpdate

SpecEscSeq == InitEsc /\ [][NextEscSeq]_vars

(***************************************************************************)
(* Specification of the whole database side: requests and the operator's   *)
(* commands run at any time, the periodic tasks one after the other.       *)
(***************************************************************************)
MaxCoreRequests == 1

\* no classification pass is between its start and its end
PassQuiet == \A p \in PassProcs : cp[p].pc \in {"idle", "done", "failed"}

PassStartCore(p) == sw.pc = "idle" /\ EscQuiet /\ PassStart(p)
SweepCountCore == PassQuiet /\ EscQuiet /\ SweepCount
EscQueryCore(p) == sw.pc = "idle" /\ PassQuiet /\ EscQuery(p)

\* ip1 holds an active high_volume flag last seen eight days ago, an active
\* sensitive_paths flag last seen six days ago and an inactive failed_logins
\* flag
CoreFlagStore ==
    {SeedFlag(1, "ip1", "high_volume", 8, TRUE),
     SeedFlag(2, "ip1", "sensitive_paths", 6, TRUE),
     SeedFlag(3, "ip1", "failed_logins", 6, FALSE)}

\* the instant one second past the retention period
CoreInstants == {RetentionDays * Day + 1}

\* the periodic tasks end within their period: the retention period passes
\* while none of them is running
CoreTick(t) == PassQuiet /\ EscQuiet /\ sw.pc = "idle" /\ BatchTick(t)

\* ip1 made 101 requests in the last hour, 4 of them under /admin/; the
\* operator blocked ip2 a day ago
InitCore ==
    /\ now = 0
    /\ RateEmpty
    /\ blocked = {[ip |-> "ip2", reason |-> "abuse", created_at |-> 0 - Day]}
    /\ log = (<<"ip1", PlainPath, 0>> :> HighVolumeThreshold - AdminThreshold)
                @@ (<<"ip1", AdminPath, 0>> :> AdminThreshold + 1)
    /\ flags = CoreFlagStore
    /\ nextId = 4
    /\ tm = [p \in TMProcs |-> IdleTracker]
    /\ cp = [p \in PassProcs |-> IdlePass]
    /\ sw = IdleSweep
    /\ runs = NoRuns
    /\ es = [p \in EscProcs |-> IdleEscalation]

NextCore ==
    \/ \E req \in FlagRequests : TrackedRequest(1, req, MaxCoreRequests)
    \/ \E force \in BOOLEAN : BlockCommand("ip1", "abuse", force)
    \/ UnblockCommand("ip1")
    \/ PassStartCore(1)
    \/ PassQuery(1)
    \/ PassGet(1)
    \/ PassCreate(1)
    \/ PassSave(1)
    \/ SweepCountCore
    \/ SweepUpdate
    \/ EscQueryCore(1)
    \/ EscExists(1)
    \/ EscReasons(1)
    \/ EscCreate(1)
    \/ \E t \in CoreInstants : CoreTick(t)

SpecCore == InitCore /\ [][NextCore]_vars

\* ip1's only requests of the last hour: 101 or 201, all to /admin/users/
AdminLogs ==
    {(<<"ip1", AdminPath, 0>> :> n) :
        n \in {HighVolumeThreshold + 1, BruteForceThreshold + 1}}

InitAdmin ==
    /\ now = 0
    /\ RateEmpty
    /\ blocked = {}
    /\ log \in AdminLogs
    /\ flags = {}
    /\ nextId = 1
    /\ tm = [p \in TMProcs |-> IdleTracker]
    /\ cp = [p \in PassProcs |-> IdlePass]
    /\ sw = IdleSweep
    /\ runs = NoRuns
    /\ es = [p \in EscProcs |-> IdleEscalation]

\* the pass and the escalation run one after the other
PassStartQuiet(p) == EscQuiet /\ PassStart(p)
EscQueryAfterPass(p) == PassQuiet /\ EscQuery(p)

NextAdmin ==
    \/ PassStartQuiet(1)
    \/ PassQuery(1)
    \/ PassGet(1)
    \/ PassExists(1)
    \/ PassCreate(1)
    \/ PassSave(1)
    \/ EscQueryAfterPass(1)
    \/ EscExists(1)
    \/ EscReasons(1)
    \/ EscCreate(1)

SpecAdmin == InitAdmin /\ [][NextAdmin]_vars

(***************************************************************************)
(* Specification of one worker's passes with failing detectors, and of the *)
(* brute-force detector called on its own.                                 *)
(***************************************************************************)
LoginPath == <<"api", "login">>
AdminLoginPath == <<"admin", "login">>

\* ip1 made 201 requests in the last hour: 7 under /admin/, 6 of them under
\* /admin/login/, and 11 to /api/login/; ip2 made 101
PassLog ==
    (<<"ip1", AdminLoginPath, 0>> :> SensitiveThreshold + 1)
        @@ (<<"ip1", AdminPath, 0>> :> 1)
        @@ (<<"ip1", LoginPath, 0>> :> LoginThreshold + 1)
        @@ (<<"ip1", PlainPath, 0>> :>
               BruteForceThreshold + 1 - (SensitiveThreshold + 1) - 1 - (LoginThreshold + 1))
        @@ (<<"ip2", PlainPath, 0>> :> HighVolumeThreshold + 1)

InitPass ==
    /\ now = 0
    /\ RateEmpty
    /\ blocked = {}
    /\ log = PassLog
    /\ \E old \in BOOLEAN :
          /\ flags = IF old THEN {SeedFlag(1, "ip1", "sensitive_paths", 8, FALSE)} ELSE {}
          /\ nextId = IF old THEN 2 ELSE 1
    /\ tm = [p \in TMProcs |-> IdleTracker]
    /\ cp = [p \in PassProcs |-> IdlePass]
    /\ sw = IdleSweep
    /\ runs = NoRuns
    /\ es = [p \in EscProcs |-> IdleEscalation]

NextPass ==
    \/ PassStart(1)
    \/ PassQuery(1)
    \/ PassGet(1)
    \/ PassExists(1)
    \/ PassCreate(1)
    \/ PassSave(1)
    \/ PassFail(1)

SpecPass == InitPass /\ [][NextPass]_vars

\* the Flag Store without last_seen
FlagView ==
    {[id |-> r.id, ip |-> r.ip, reason |-> r.reason, details |-> r.details,
      request_count |-> r.request_count, first_seen |-> r.first_seen,
      is_active |-> r.is_active] : r \in flags}

\* the first call of monitor_suspicious_ips
PassFirst(p) == cp[p].pc = "idle" /\ PassStart(p)

\* monitor_suspicious_ips called again after it returned; the history field
\* prev keeps the Flag Store and the summary the earlier call left
PassAgain(p) ==
    /\ cp[p].pc = "done"
    /\ runs.passes < MaxPasses
    /\ runs' = [runs EXCEPT !.passes = @ + 1]
    /\ cp' = [cp EXCEPT ![p] =
                [IdlePass EXCEPT !.pc = "query", !.since = now - Hour, !.det = 1, !.pidx = 1]
                    @@ [prev |-> [view |-> FlagView, summary |-> Summary(cp[p])]]]
    /\ UNCHANGED <<now, blocked, log, flags, nextId, tm, sw, es>>
    /\ UNCHANGED rateVars

\* one worker calling the pass again and again over the same log while the
\* clock advances by at most an hour, so that the rows of the log stay in
\* the trailing hour
NextTwice ==
    \/ PassFirst(1)
    \/ PassAgain(1)
    \/ PassQuery(1)
    \/ PassGet(1)
    \/ PassExists(1)
    \/ PassCreate(1)
    \/ PassSave(1)
    \/ \E t \in {1, Hour} : BatchTick(t)

SpecTwice == InitPass /\ [][NextTwice]_vars

\* check_brute_force_patterns(since_time) called with the last hour
BruteStart(p) ==
    /\ cp[p].pc \in {"idle", "done", "failed"}
    /\ runs.passes < MaxPasses
    /\ runs' = [runs EXCEPT !.passes = @ + 1]
    /\ cp' = [cp EXCEPT ![p] = [IdlePass EXCEPT !.pc = "query", !.since = now - Hour,
                                                !.det = NumDetectors, !.pidx = 1]]
    /\ UNCHANGED <<now, blocked, log, flags, nextId, tm, sw, es>>
    /\ UNCHANGED rateVars

\* both addresses made 201 requests in the last hour; each holds an active
\* high_volume flag, an inactive one, or none
BruteFlagStores ==
    {  (IF a = "none" THEN {} ELSE {SeedFlag(1, "ip1", "high_volume", 8, a = "active")})
       \cup (IF b = "none" THEN {} ELSE {SeedFlag(2, "ip2", "high_volume", 8, b = "active")}) :
          a \in {"none", "active", "inactive"}, b \in {"none", "active", "inactive"} }

InitBrute ==
    /\ now = 0
    /\ RateEmpty
    /\ blocked = {}
    /\ log = (<<"ip1", PlainPath, 0>> :> BruteForceThreshold + 1)
                @@ (<<"ip2", PlainPath, 0>> :> BruteForceThreshold + 1)
    /\ flags \in BruteFlagStores
    /\ nextId = 3
    /\ tm = [p \in TMProcs |-> IdleTracker]
    /\ cp = [p \in PassProcs |-> IdlePass]
    /\ sw = IdleSweep
    /\ runs = NoRuns
    /\ es = [p \in EscProcs |-> IdleEscalation]

NextBrute ==
    \/ BruteStart(1)
    \/ PassQuery(1)
    \/ PassExists(1)
    \/ PassGet(1)
    \/ PassCreate(1)
    \/ PassSave(1)

SpecBrute == InitBrute /\ [][NextBrute]_vars

(***************************************************************************)
(* Properties of the rate limiter.                                         *)
(***************************************************************************)
\* a handler that has answered a rate-limited request
Answered(p) == rl[p].pc = "idle" /\ rl[p].result \in {"allow", "reject"}

\* the step in which handler p answers from the comparison with the limit
DecideStep(p) == rl[p].pc = "decide" /\ rl'[p].pc = "idle" /\ ~rl'[p].err

\* C1: for every key, the number of admitted requests whose timestamp lies in
\* the trailing window_size seconds never exceeds the key's limit.
C1_NeverOverLimit ==
    \A k \in RateKeys : Len(PruneWindow(allowed[k], now)) <= KeyLimit(k)

\* C2: the fetch-prune-append-persist of check_rate_limit is atomic per key: no
\* two requests for one key read the same stored window with one slot left and
\* are both admitted.
C2_AtomicPerKey ==
    ~ \E p, q \in RateProcs :
         /\ p # q
         /\ rl[p].pc = "idle" /\ rl[q].pc = "idle"
         /\ rl[p].result = "allow" /\ rl[q].result = "allow"
         /\ ~rl[p].err /\ ~rl[q].err
         /\ rl[p].key = rl[q].key
         /\ rl[p].ver = rl[q].ver
         /\ rl[p].n = rl[p].limit - 1
         /\ rl[q].n = rl[q].limit - 1

\* C3: for one client sending its requests one after the other: a request is
\* allowed exactly when fewer than L earlier admitted requests of its key lie in
\* the 60 s before it; so the first L requests are allowed, a further request
\* while the last L admitted ones are inside its window is rejected, and the
\* request sent 61 s or more after the first of L admitted ones is allowed.
C3_Scenario ==
    [][ LET k == rl[1].key
            L == KeyLimit(k)
            t == rl[1].t
            adm == allowed[k]
            ok == rl'[1].result = "allow"
        IN  DecideStep(1) =>
              /\ ok <=> (CountAfter(adm, t - window_size) < L)
              /\ Len(adm) < L => ok
              /\ (Len(adm) >= L /\ adm[Len(adm) - L + 1] > t - window_size) => ~ok
              /\ (Len(adm) = L /\ t >= adm[1] + window_size + 1) => ok
      ]_vars

\* the client was admitted L times within 10 s, was rejected, and was admitted
\* once more 60 s or more after its first request
C3_Witness ==
    \E k \in RateKeys :
        LET L == KeyLimit(k) IN
        /\ Len(allowed[k]) = L + 1
        /\ allowed[k][L] - allowed[k][1] <= CacheGrace
        /\ allowed[k][L + 1] - allowed[k][1] >= window_size
        /\ started >= L + 2

\* C4: a call of check_rate_limit that rejects leaves the stored window of its
\* key, and the expiry of that entry, as they were.
C4_RejectLeavesStore ==
    [][ \A p \in RateProcs :
          (DecideStep(p) /\ rl'[p].result = "reject")
             => cache'[rl[p].key] = cache[rl[p].key]
      ]_vars

\* a request was rejected on a full window at a time later than the window's
\* last write
C4_Witness ==
    \E p \in RateProcs :
        /\ Answered(p) /\ rl[p].result = "reject"
        /\ rl[p].n >= rl[p].limit
        /\ cache[rl[p].key].expires < now + window_size + CacheGrace
        /\ cache[rl[p].key].expires > now

\* C5: when the cache backend fails in check_rate_limit the call answers allow,
\* whatever the window of the key holds.
C5_FailOpen ==
    \A p \in RateProcs : rl[p].err => rl[p].result = "allow"

\* the backend failed for a request whose key has a full window
C5_Witness ==
    \E p \in RateProcs :
        /\ rl[p].err /\ rl[p].result = "allow"
        /\ OverLimit(PruneWindow(CacheGet(rl[p].key), now), rl[p].limit)

(***************************************************************************)
(* Properties of the Block List gate.                                      *)
(***************************************************************************)
\* what the gate did with the request handler p has checked
GateContract(p) ==
    /\ (tm[p].answer = "blocked") <=> tm[p].row
    /\ tm[p].answer = "blocked" =>
          (tm[p].response = 403 /\ tm[p].pc = "idle" /\ ~tm[p].view /\ ~tm[p].logged)
    /\ ~tm[p].row => (tm[p].answer = "pass" /\ tm[p].response # 403)

\* C6 as stated: the gate answers blocked exactly when a Block List row exists
\* for the identity at the time of the check; a blocked request gets the 403 and
\* the view is not invoked; an identity with no row passes.
C6_GateExact ==
    \A p \in TMProcs : tm[p].answer # "none" => GateContract(p)

\* C6 as amended: the same, for every check that raises no storage error.
C6_GateExactNoError ==
    \A p \in TMProcs : (tm[p].answer # "none" /\ ~tm[p].err) => GateContract(p)

\* a request of a blocked identity was rejected with 403 before the view, while
\* another identity has no row
C6_Witness ==
    \E p \in TMProcs :
        /\ tm[p].answer = "blocked" /\ tm[p].row /\ ~tm[p].err
        /\ tm[p].response = 403 /\ ~tm[p].view
        /\ \E ip \in TrackIPs : ~BlockedExists(ip)

\* C7: when the existence check of the gate raises, the gate answers not-blocked
\* and the request proceeds, also for an identity that has a Block List row.
C7_GateFailOpen ==
    \A p \in TMProcs :
        tm[p].err =>
            /\ tm[p].answer = "pass"
            /\ tm[p].response # 403
            /\ tm[p].pc = "idle" => tm[p].view

\* the check failed for an identity with a row and the view was invoked
C7_Witness ==
    \E p \in TMProcs : tm[p].err /\ tm[p].row /\ tm[p].view /\ tm[p].response = 200


(***************************************************************************)
(* Properties of the Flag Store and the high-volume detector.              *)
(***************************************************************************)
\* C8: in every reachable state the Flag Store holds at most one row per
\* (identity, reason), also when two overlapping passes upsert the same pair
C8_OneRowPerPair ==
    \A r1, r2 \in flags : (r1.ip = r2.ip /\ r1.reason = r2.reason) => r1 = r2

\* a worker whose SELECT found no row is about to INSERT a pair that the
\* other worker has inserted in the meantime
C8_Witness ==
    \E p \in PassProcs :
        /\ cp[p].pc = "create"
        /\ \E r \in flags : r.ip = cp[p].cur.ip /\ r.reason = Reasons[cp[p].det]

\* the row an upsert by worker p leaves for its pair: the new details and
\* count, last seen now, active
UpsertedRow(p, r) ==
    /\ r.ip = cp[p].cur.ip
    /\ r.reason = Reasons[cp[p].det]
    /\ r.details = Details(cp[p].det, cp[p].pidx, cp[p].cur.count)
    /\ r.request_count = cp[p].cur.count
    /\ r.last_seen = now
    /\ r.is_active

\* C9: a detector that fires for a pair with a flag gives the flag the new
\* details and count, last_seen = now and is_active = true whatever its prior
\* state, and leaves first_seen and the number of rows unchanged; for a pair
\* without a flag it creates one, active, with first_seen = now
C9_UpsertSemantics ==
    [][\A p \in PassProcs :
          /\ (cp[p].pc = "save" /\ cp'[p] # cp[p]) =>
                /\ \E q \in flags : \E r \in flags' :
                      /\ q.ip = cp[p].cur.ip /\ q.reason = Reasons[cp[p].det]
                      /\ r.id = q.id
                      /\ r.first_seen = q.first_seen
                      /\ UpsertedRow(p, r)
                      /\ flags' = (flags \ {q}) \cup {r}
          /\ (cp[p].pc = "create" /\ cp'[p] # cp[p]
                /\ FlagRows(cp[p].cur.ip, Reasons[cp[p].det]) = {}) =>
                \E r \in flags' :
                      /\ r \notin flags
                      /\ UpsertedRow(p, r)
                      /\ r.first_seen = now
                      /\ flags' = flags \cup {r}
          /\ (cp[p].pc = "create" /\ cp'[p] # cp[p]
                /\ FlagRows(cp[p].cur.ip, Reasons[cp[p].det]) # {}) =>
                (flags' = flags /\ cp'[p].pc = "save")
      ]_vars

\* a flag that was inactive when a detector fired for it is active again, with
\* its first_seen older than its last_seen, next to a flag created in this run
C9_Witness ==
    \E p \in PassProcs : \E u \in cp[p].upd : \E r \in flags :
        /\ ~u.was_active
        /\ r.ip = u.ip /\ r.reason = u.reason
        /\ r.is_active
        /\ r.first_seen < r.last_seen
        /\ \E c \in flags : c.id # r.id /\ c.first_seen = now /\ c.is_active

\* the requests of ip logged at or after instant since
RequestsSince(ip, since) ==
    SumOver({k \in DOMAIN log : k[1] = ip /\ k[3] >= since}, log)

\* the addresses the high-volume detector of worker 1 still has to flag or has
\* flagged in this pass
HighVolumeFound(c) ==
    {it.ip : it \in c.items} \cup (IF c.cur = <<>> THEN {} ELSE {c.cur.ip})
        \cup c.flagged[1]

\* C10: the high-volume detector finds exactly the identities with more
\* than 100 requests in the trailing hour (100 itself is not found) with that
\* count, flags every one of them, stores the count in the flag, and on a pair
\* that has a flag updates that row to the new count without adding a row
C10_HighVolume ==
    [][/\ (cp[1].pc = "query" /\ cp[1].det = 1 /\ cp'[1] # cp[1]) =>
             /\ {it.ip : it \in cp'[1].items}
                   = {ip \in TrackIPs : RequestsSince(ip, cp[1].since) > 100}
             /\ \A it \in cp'[1].items : it.count = RequestsSince(it.ip, cp[1].since)
             /\ \A ip \in TrackIPs :
                   RequestsSince(ip, cp[1].since) = 100 =>
                       ip \notin {it.ip : it \in cp'[1].items}
       /\ (cp[1].det = 1 /\ cp[1].pc # "query" /\ cp'[1] # cp[1]) =>
             /\ cp'[1].det = 1 => HighVolumeFound(cp'[1]) = HighVolumeFound(cp[1])
             /\ cp'[1].det # 1 => cp'[1].flagged[1] = HighVolumeFound(cp[1])
       /\ (cp[1].det = 1 /\ cp[1].pc = "create" /\ cp'[1] # cp[1]) =>
             /\ flags \subseteq flags'
             /\ \E r \in flags' \ flags :
                   /\ r.ip = cp[1].cur.ip /\ r.reason = "high_volume"
                   /\ r.request_count = cp[1].cur.count
                   /\ r.request_count > 100
       /\ (cp[1].det = 1 /\ cp[1].pc = "save" /\ cp'[1] # cp[1]) =>
             /\ {r.id : r \in flags'} = {r.id : r \in flags}
             /\ \E r \in flags' :
                   /\ r.id = cp[1].obj.id
                   /\ r.ip = cp[1].cur.ip /\ r.reason = "high_volume"
                   /\ r.request_count = cp[1].cur.count
                   /\ r.request_count > 100
      ]_vars

\* an address flagged with 101 requests was found with 105 by a later pass:
\* its one high_volume row now counts 105, and the address that made 100
\* requests has no flag
C10_Witness ==
    /\ \E u \in cp[1].upd :
          /\ u.reason = "high_volume" /\ u.old_count = 101 /\ u.new_count = 105
          /\ \E r \in flags :
                /\ FlagRows(u.ip, "high_volume") = {r}
                /\ r.request_count = 105
    /\ RequestsSince("ip2", cp[1].since) = 100
    /\ FlagRows("ip2", "high_volume") = {}

(***************************************************************************)
(* Properties of the escalator.                                            *)
(***************************************************************************)
\* the distinct reasons of the active flags of ip
DistinctActiveReasons(ip) == {f.reason : f \in {g \in flags : g.ip = ip /\ g.is_active}}

C12_SequentialIdempotence ==
    [][(es'[1] # es[1] /\ es'[1].pc \in {"done", "failed"}) =>
          LET e == es'[1]
              after == {r.ip : r \in blocked'}
          IN  /\ e.pc = "done"
              /\ \A ip \in e.selected : Cardinality({r \in blocked' : r.ip = ip}) = 1
              /\ after \ e.before = e.selected \ e.before
              /\ e.blocked_count = Cardinality(after \ e.before)
              /\ (e.selected \subseteq e.before) => e.blocked_count = 0
      ]_vars

\* the second run in a row found the identity it selected already blocked by
\* the first and returned 0
C12_Witness ==
    /\ es[1].pc = "done"
    /\ es[1].ran = 2
    /\ es[1].selected # {}
    /\ es[1].selected \subseteq es[1].before
    /\ es[1].blocked_count = 0
    /\ \A ip \in es[1].selected : Cardinality({r \in blocked : r.ip = ip}) = 1

\* C13: two escalation runs that overlap on an identity with 3 or more
\* active reasons and no Block List row both end without an error and leave
\* exactly one row for the identity
C13_OverlapTolerated ==
    /\ \A p \in EscProcs : ~es[p].error
    /\ \A ip \in TrackIPs : Cardinality({r \in blocked : r.ip = ip}) <= 1

C15_ExpirySweep ==
    [][/\ (sw.pc = "idle" /\ sw'.pc = "update") => sw'.cutoff = now - 7 * 86400
       /\ (sw.pc = "update" /\ sw'.pc = "idle") =>
             /\ \A r \in flags :
                   IF r.is_active /\ r.last_seen < sw.cutoff
                   THEN [r EXCEPT !.is_active = FALSE] \in flags'
                   ELSE r \in flags'
             /\ Cardinality(flags') = Cardinality(flags)
      ]_vars

\* after a sweep at instant 0 the flag last seen eight days ago is inactive
\* and the flag last seen six days ago is still active
C15_Witness ==
    /\ sw.pc = "idle"
    /\ runs.sweeps >= 1
    /\ now = 0
    /\ \E r \in flags : r.last_seen = 0 - 8 * 86400 /\ ~r.is_active
    /\ \E r \in flags : r.last_seen = 0 - 6 * 86400 /\ r.is_active

\* the step is the save of a detector's upsert for the pair of row r
UpsertOf(r) ==
    \E p \in PassProcs :
        /\ cp[p].pc = "save" /\ cp'[p] # cp[p]
        /\ cp[p].cur.ip = r.ip
        /\ Reasons[cp[p].det] = r.reason

\* C16: an inactive flag becomes active only by a detector's upsert for its
\* (identity, reason), never by the sweep, the escalator, a request or an
\* operator command; an active flag becomes inactive only by the sweep
C16_FlagLifeCycle ==
    [][\A r \in flags : \A q \in flags' :
          q.id = r.id =>
              /\ (~r.is_active /\ q.is_active) => UpsertOf(r)
              /\ (r.is_active /\ ~q.is_active) => (sw.pc = "update" /\ sw'.pc = "idle")
      ]_vars

\* a flag the sweep had deactivated is active again after a detector fired
\* for it; a request, an operator command and an escalation have run too
C16_Witness ==
    /\ \E u \in cp[1].upd : \E r \in flags :
          ~u.was_active /\ r.ip = u.ip /\ r.reason = u.reason /\ r.is_active
    /\ runs.sweeps >= 1
    /\ runs.requests >= 1
    /\ runs.commands >= 1
    /\ es[1].ran >= 1

\* the step is an operator command: it starts no task and writes no flag
OperatorStep ==
    /\ runs'.commands = runs.commands + 1
    /\ es' = es /\ cp' = cp /\ sw' = sw /\ tm' = tm /\ flags' = flags /\ log' = log

\* C17: no pass, escalation, sweep or request removes a Block List row; a
\* blocked identity stays blocked, also with all its flags inactive, until the
\* operator's unblock command deletes its row
C17_BlockListMonotone ==
    [][\A ip \in TrackIPs :
          (BlockedExists(ip) /\ ~(\E r \in blocked' : r.ip = ip)) => OperatorStep
      ]_vars

\* the identity the escalator blocked is still blocked after the sweep has
\* deactivated every one of its flags, next to the operator's row
C17_Witness ==
    /\ \E r \in blocked :
          /\ r.ip = "ip1"
          /\ r.reason = "Auto-blocked due to multiple suspicious activities"
    /\ \E r \in flags : r.ip = "ip1"
    /\ \A r \in flags : r.ip = "ip1" => ~r.is_active
    /\ runs.sweeps >= 1 /\ sw.pc = "idle"
    /\ BlockedExists("ip2")

(***************************************************************************)
(* Properties of the classification pass and its detectors.                *)
(***************************************************************************)
DetectorOrder ==
    <<"high_volume", "sensitive_paths", "failed_logins", "admin_access", "brute_force">>

\* C18: a pass runs the detectors in the order high_volume, sensitive_paths,
\* failed_logins, admin_access, brute_force; a detector's failure ends the pass
\* with the error raised, no later detector runs, and the flags written so far
\* stay in the Flag Store
C18_OrderAndFailure ==
    [][cp'[1] # cp[1] =>
          LET c == cp[1]
              d == cp'[1]
          IN  /\ c.pc \in {"idle", "done", "failed"} => (d.pc = "query" /\ d.det = 1)
              /\ (c.pc \notin {"idle", "done", "failed"} /\ d.pc # "failed") =>
                    \/ d.det = c.det
                    \/ d.det = c.det + 1
                    \/ (c.det = 5 /\ d.pc = "done")
              /\ c.pc \notin {"idle", "done", "failed"} =>
                    \A r \in flags' \ flags : r.reason = DetectorOrder[c.det]
              /\ d.pc = "failed" =>
                    /\ flags' = flags
                    /\ d.det = c.det
                    /\ d.flagged = c.flagged
                    /\ \A k \in (d.det + 1)..5 : d.flagged[k] = {}
              /\ \A r \in flags : \E q \in flags' :
                    q.id = r.id /\ q.ip = r.ip /\ q.reason = r.reason
      ]_vars

\* the first pass failed in its third detector: the flags of the first two
\* detectors are in the Flag Store, no admin_access flag has been written
C18_Witness ==
    /\ cp[1].pc = "failed"
    /\ cp[1].det = 3
    /\ runs.passes = 1
    /\ cp[1].flagged[1] # {}
    /\ cp[1].flagged[2] # {}
    /\ \E r \in flags : r.reason = "high_volume" /\ r.is_active
    /\ \E r \in flags : r.reason = "sensitive_paths" /\ r.is_active /\ r.last_seen = now
    /\ ~(\E r \in flags : r.reason = "admin_access")

\* C19: when the brute-force detector ends, an identity with more than 200
\* requests in the window holds an active brute_force flag written by this run
\* exactly when it holds no active high_volume flag
C19_BruteForceExclusion ==
    [][(cp[1].det = 5 /\ cp'[1].pc = "done") =>
          \A ip \in TrackIPs :
              RequestsSince(ip, cp[1].since) > 200 =>
                  ((ip \in cp'[1].flagged[5]
                      /\ \E f \in flags' : f.ip = ip /\ f.reason = "brute_force" /\ f.is_active)
                   <=> ~(\E f \in flags' : f.ip = ip /\ f.reason = "high_volume" /\ f.is_active))
      ]_vars

\* the requests of ip under the i-th sensitive prefix since the cutoff
SensitiveCount(ip, i, since) ==
    SumOver({k \in DOMAIN log : k[1] = ip /\ k[3] >= since
                                  /\ StartsWith(k[2], sensitive_paths[i])}, log)

\* the prefixes on which ip qualifies
Qualifying(ip, since) ==
    {i \in 1..Len(sensitive_paths) : SensitiveCount(ip, i, since) > 5}

\* C20: when the sensitive-path detector ends it has flagged exactly the
\* identities with more than 5 requests under some sensitive prefix, and the
\* flag's details and count are those of the first qualifying prefix of the
\* list
C20_FirstPrefixWins ==
    [][(cp[1].det = 2 /\ cp'[1].det = 3) =>
          /\ cp'[1].flagged[2] = {ip \in TrackIPs : Qualifying(ip, cp[1].since) # {}}
          /\ \A ip \in cp'[1].flagged[2] :
                LET first == CHOOSE i \in Qualifying(ip, cp[1].since) :
                                \A j \in Qualifying(ip, cp[1].since) : i <= j
                IN  \E r \in flags' :
                       /\ r.ip = ip /\ r.reason = "sensitive_paths"
                       /\ r.details.path = sensitive_paths[first]
                       /\ r.details.count = SensitiveCount(ip, first, cp[1].since)
                       /\ r.request_count = SensitiveCount(ip, first, cp[1].since)
      ]_vars

(***************************************************************************)
(* Further properties of the rate limiter.                                 *)
(***************************************************************************)
\* C21: the authenticated and the anonymous key of one client address are
\* different keys, a handler's limit is the one of its key's scope, its
\* cache.get reads its own key's entry, and none of its steps changes the
\* window of another key
C21_KeyIsolation ==
    [][\A p \in RateProcs :
          rl'[p] # rl[p] =>
              LET k == rl'[p].key
              IN  /\ \A ip \in RateIPs : CacheKey("u1", ip) # CacheKey(Anonymous, ip)
                  /\ rl'[p].pc # "idle" => rl'[p].limit = KeyLimit(k)
                  /\ (rl[p].pc = "get" /\ rl'[p].pc = "decide") =>
                        rl'[p].data = IF cache[k].expires > now THEN cache[k].data ELSE <<>>
                  /\ \A k2 \in RateKeys \ {k} :
                        /\ cache'[k2] = cache[k2]
                        /\ writes'[k2] = writes[k2]
                        /\ allowed'[k2] = allowed[k2]
      ]_vars

\* the anonymous key of ip1 has rejected a request and the authenticated key
\* of the same address has admitted one: the two windows differ
C21_Witness ==
    \E p, q \in RateProcs :
        /\ rl[p].key = <<"rate_limit_anon", "ip1">> /\ rl[p].result = "reject"
        /\ rl[q].key = <<"rate_limit_auth", "u1", "ip1">> /\ rl[q].result = "allow"
        /\ ~rl[q].err
        /\ Len(cache[rl[q].key].data) > Len(cache[rl[p].key].data)

\* the path starts with /health/, /static/, /media/ or /admin/jsi18n/
ExemptPath(path) ==
    /\ path # <<>>
    /\ \/ path[1] \in {"health", "static", "media"}
       \/ (Len(path) >= 2 /\ path[1] = "admin" /\ path[2] = "jsi18n")

PathSamples ==
    {<<"health">>, <<"static", "css">>, <<"media", "a">>, <<"admin", "jsi18n">>,
     <<"admin">>, <<"admin", "login">>, <<"api", "test-rate-limit">>, <<"healthy">>, <<>>}

\* C22: a request to an exempt path is answered at once without a rejection,
\* reads no window and changes no window, whatever the caller's window holds
C22_ExemptBypass ==
    [][/\ \A p \in RateProcs :
             (rl[p].pc = "idle" /\ rl'[p] # rl[p] /\ ExemptPath(rl'[p].path)) =>
                 /\ \A path \in PathSamples : should_skip_rate_limit(path) <=> ExemptPath(path)
                 /\ rl'[p].pc = "idle"
                 /\ rl'[p].result = "skip"
                 /\ rl'[p].data = <<>>
                 /\ cache' = cache /\ writes' = writes /\ allowed' = allowed
       /\ \A p \in RateProcs :
             (rl'[p] # rl[p] /\ rl'[p].result = "reject") => ~ExemptPath(rl'[p].path)
      ]_vars

\* a request to /health/ was let through while its key's window was full
C22_Witness ==
    \E p \in RateProcs :
        /\ rl[p].result = "skip"
        /\ rl[p].path = <<"health">>
        /\ cache[rl[p].key].expires > now
        /\ CountAfter(cache[rl[p].key].data, now - window_size) >= KeyLimit(rl[p].key)

\* C25: in every reachable state every timestamp stored in a key's window
\* satisfies now - window_size < timestamp <= now
C25_StoredWithinWindow ==
    \A k \in RateKeys : \A i \in DOMAIN cache[k].data :
        /\ now - 60 < cache[k].data[i]
        /\ cache[k].data[i] <= now

\* C25 as the code has it: every timestamp of the list a handler stores is
\* later than its clock reading minus window_size, and no stored timestamp is
\* later than now; older timestamps stay stored until the key's next admitted
\* request
C25_StoredWithinWindowAtWrite ==
    [][/\ \A k \in RateKeys : \A i \in DOMAIN cache'[k].data : cache'[k].data[i] <= now'
       /\ \A p \in RateProcs :
             (rl[p].pc = "decide" /\ rl'[p] # rl[p] /\ cache'[rl[p].key] # cache[rl[p].key]) =>
                 \A i \in DOMAIN cache'[rl[p].key].data :
                     cache'[rl[p].key].data[i] > rl[p].t - 60
      ]_vars

\* a key's entry holds a timestamp that left the window, and a handler has
\* stored a pruned list after the clock passed window_size
C25_Witness ==
    /\ \E k \in RateKeys : \E i \in DOMAIN cache[k].data : cache[k].data[i] <= now - 60
    /\ \E k \in RateKeys :
          /\ cache[k].data # <<>>
          /\ \A i \in DOMAIN cache[k].data : cache[k].data[i] >= 60

\* C26: when a key's entry expires every timestamp in it has left the
\* trailing window, so a request that reads its clock at or after the expiry
\* (or up to the grace before it) gets from the expired entry the same pruned
\* window, the empty one, as it would from the entry itself
C26_TtlExpiryHarmless ==
    [][/\ \A k \in RateKeys : \A i \in DOMAIN cache'[k].data :
             cache'[k].data[i] + 60 <= cache'[k].expires
       /\ \A p \in RateProcs :
             (rl[p].pc = "get" /\ rl'[p].pc = "decide"
                /\ cache[rl[p].key].expires <= now
                /\ rl[p].t >= cache[rl[p].key].expires - 10) =>
                 /\ rl'[p].data = <<>>
                 /\ \A i \in DOMAIN cache[rl[p].key].data :
                       cache[rl[p].key].data[i] <= rl[p].t - 60
      ]_vars

\* a handler that read its clock after the expiry got the empty window from an
\* expired entry that still holds timestamps
C26_Witness ==
    \E p \in RateProcs :
        /\ rl[p].pc = "decide"
        /\ rl[p].data = <<>>
        /\ cache[rl[p].key].data # <<>>
        /\ cache[rl[p].key].expires <= now
        /\ rl[p].t >= cache[rl[p].key].expires

(***************************************************************************)
(* Further properties of the Block List gate.                              *)
(***************************************************************************)
\* C23 as stated: the gate applies to every path, also to the paths the rate
\* limiter exempts: a request of an identity with a Block List row to /health/
\* or /static/ is rejected by the gate
C23_GateOnExemptPaths ==
    \A p \in TMProcs :
        (tm[p].answer # "none" /\ should_skip_rate_limit(tm[p].path) /\ tm[p].row) =>
            (tm[p].answer = "blocked" /\ tm[p].response = 403 /\ ~tm[p].view)

\* C23 as amended: the same, for every check that raises no storage error
C23_GateOnExemptPathsNoError ==
    \A p \in TMProcs :
        (tm[p].answer # "none" /\ should_skip_rate_limit(tm[p].path) /\ tm[p].row
            /\ ~tm[p].err) =>
            (tm[p].answer = "blocked" /\ tm[p].response = 403 /\ ~tm[p].view)

\* requests of a blocked identity to /health/ and to /static/css got the 403
C23_Witness ==
    \E p, q \in TMProcs :
        /\ tm[p].path = <<"health">> /\ tm[q].path = <<"static", "css">>
        /\ \A x \in {p, q} :
              /\ tm[x].row /\ ~tm[x].err
              /\ tm[x].answer = "blocked" /\ tm[x].response = 403 /\ ~tm[x].view

\* C29 as stated: a request of an identity that has a Block List row at the
\* time of the gate check never appends an entry to the Request Log: the log
\* only grows by the append of a handler whose identity had no row
C29_BlockedNeverLogged ==
    [][log' # log =>
          \E p \in TMProcs :
              /\ tm[p].pc = "log" /\ ~tm[p].logged /\ tm'[p].logged
              /\ log' = LogAdd(log, <<tm[p].ip, tm[p].path, now>>)
              /\ ~tm[p].row
      ]_vars

\* C29 as amended: the log only grows by the append of a handler whose
\* identity had no row at the gate check or whose gate check raised
C29_BlockedNeverLoggedNoError ==
    [][log' # log =>
          \E p \in TMProcs :
              /\ tm[p].pc = "log" /\ ~tm[p].logged /\ tm'[p].logged
              /\ log' = LogAdd(log, <<tm[p].ip, tm[p].path, now>>)
              /\ (~tm[p].row \/ tm[p].err)
      ]_vars

\* a blocked identity's request was rejected and the log holds no entry of that
\* identity, while another identity's request was logged
C29_Witness ==
    \E p, q \in TMProcs :
        /\ tm[p].answer = "blocked" /\ tm[p].row /\ ~tm[p].err /\ ~tm[p].logged
        /\ tm[q].logged /\ ~tm[q].row
        /\ \A k \in DOMAIN log : k[1] # tm[p].ip
        /\ \E k \in DOMAIN log : k[1] = tm[q].ip

(***************************************************************************)
(* Further properties of the Flag Store, the Block List and the tasks.     *)
(***************************************************************************)
\* C24: flags are never deleted: no step of a pass, a sweep, an escalation, a
\* request or an operator command removes a flag row or changes its identity,
\* reason or first_seen
C24_FlagsNeverDeleted ==
    [][\A r \in flags : \E q \in flags' :
          /\ q.id = r.id
          /\ q.ip = r.ip
          /\ q.reason = r.reason
          /\ q.first_seen = r.first_seen
      ]_vars

\* after a sweep, a pass that refreshed and created flags, an escalation and
\* an operator command the seeded flags still exist with their first_seen, one
\* of them inactive
C24_Witness ==
    /\ runs.sweeps >= 1 /\ runs.commands >= 1 /\ es[1].ran >= 1
    /\ cp[1].pc = "done" /\ cp[1].upd # {}
    /\ Cardinality(flags) > Cardinality(CoreFlagStore)
    /\ \A s \in CoreFlagStore : \E q \in flags :
          q.id = s.id /\ q.ip = s.ip /\ q.reason = s.reason /\ q.first_seen = s.first_seen
    /\ \E q \in flags : ~q.is_active

\* the step completes an upsert (a create or a save) of the running detector
UpsertDone(c, d) ==
    \/ c.pc = "create" /\ d.pc \notin {"save", "failed"}
    \/ c.pc = "save" /\ d # c /\ d.pc # "failed"

\* the identities of the upserts the log of updates records for a reason
UpsertsFor(c, reason) == {u \in c.upd : u.reason = reason}

\* C27: a detector's list holds exactly the identities it created or refreshed
\* a flag for in this pass, each once, and the summary of a finished pass
\* reports the sizes of the five lists and their sum as the total
C27_SummaryCounts ==
    [][\A p \in PassProcs :
          LET c == cp[p]
              d == cp'[p]
          IN  /\ UpsertDone(c, d) =>
                    d.flagged = [c.flagged EXCEPT ![c.det] = @ \cup {c.cur.ip}]
              /\ (c.pc \in {"query", "item", "get"} \/ (c.pc = "create" /\ d.pc = "save")) =>
                    d.flagged = c.flagged
              /\ (c.pc # "done" /\ d.pc = "done") =>
                    /\ Summary(d).high_volume = Cardinality(d.flagged[1])
                    /\ Summary(d).sensitive_paths = Cardinality(d.flagged[2])
                    /\ Summary(d).failed_logins = Cardinality(d.flagged[3])
                    /\ Summary(d).admin_access = Cardinality(d.flagged[4])
                    /\ Summary(d).brute_force = Cardinality(d.flagged[5])
                    /\ Summary(d).total =
                          Summary(d).high_volume + Summary(d).sensitive_paths
                            + Summary(d).failed_logins + Summary(d).admin_access
                            + Summary(d).brute_force
      ]_vars

\* a finished pass refreshed ip1's sensitive_paths flag for more than one
\* prefix and counts it once; two identities have a high_volume flag; the
\* total is five
C27_Witness ==
    /\ cp[1].pc = "done"
    /\ Cardinality(UpsertsFor(cp[1], "sensitive_paths")) >= 2
    /\ Summary(cp[1]).sensitive_paths = 1
    /\ Summary(cp[1]).high_volume = 2
    /\ Summary(cp[1]).total = 5

\* C28: the Block List holds at most one row per identity however escalation
\* runs and block_ip commands interleave, and a command changes an existing
\* row only with --force (the row then carries the forced reason and keeps
\* its created_at): without --force the row is left as it was
C28_BlockListUnique ==
    [][/\ \A r1, r2 \in blocked' : r1.ip = r2.ip => r1 = r2
       /\ runs'.commands # runs.commands =>
             \A r \in blocked :
                 \/ r \in blocked'
                 \/ \E q \in blocked' :
                       q.ip = r.ip /\ q.created_at = r.created_at /\ q.reason = ForceReason
      ]_vars

\* the operator blocked an identity between an escalation's existence check
\* and its INSERT, which hit the unique constraint; a second command without
\* --force for the same identity left the operator's row as it was
C28_Witness ==
    \E p \in EscProcs :
        /\ es[p].error
        /\ \E r \in blocked : r.ip = es[p].cur /\ r.reason = "abuse"
        /\ Cardinality(blocked) = 1
        /\ runs.commands >= 2

\* C30: however an escalation run and an expiry sweep interleave, when the
\* escalator inserts a Block List row the identity has at least 3 active flags
\* and the row names at least 3 reason labels
C30_EscalationSeesSameFlags ==
    [][\A p \in EscProcs : \A ip \in TrackIPs :
          (ip \in es'[p].inserted /\ ip \notin es[p].inserted) =>
              /\ Cardinality({f \in flags : f.ip = ip /\ f.is_active}) >= 3
              /\ \A r \in blocked' \ blocked : Cardinality(r.labels) >= 3
      ]_vars

(***************************************************************************)
(* The sweep and the passes running at the same time.                      *)
(***************************************************************************)
\* the flags the step deactivates
Deactivated ==
    {r \in flags : r.is_active /\ \E q \in flags' : q.id = r.id /\ ~q.is_active}

\* C31: the deactivated_count the sweep returns is the number of flags whose
\* is_active its update changed from true to false, also when a pass refreshes
\* flags between the sweep's count and its update
C31_SweepCountExact ==
    [][(sw.pc = "update" /\ sw'.pc = "idle") => sw.count = Cardinality(Deactivated)]_vars

\* C35: a sweep deactivates a flag only if it runs seven days or more after the
\* flag was last created or refreshed, and when a pass and the sweep have both
\* finished every flag the pass created or refreshed is active
C35_RefreshedStaysActive ==
    [][/\ \A r \in Deactivated : r.last_seen + 7 * 86400 <= sw.cutoff + 7 * 86400
       /\ \A p \in PassProcs :
             (cp'[p].pc = "done" /\ sw'.pc = "idle") =>
                 \A d \in 1..NumDetectors : \A ip \in cp'[p].flagged[d] :
                     \E r \in flags' : r.ip = ip /\ r.reason = Reasons[d] /\ r.is_active
      ]_vars

\* the sweep counted the eight days old flag and has finished; the pass saved
\* that flag when the sweep had already deactivated it, and the flag is active
C35_Witness ==
    \E p \in PassProcs :
        /\ cp[p].pc = "done" /\ sw.pc = "idle" /\ runs.sweeps >= 1 /\ sw.count >= 1
        /\ \E u \in cp[p].upd : \E r \in flags :
              /\ ~u.was_active
              /\ r.ip = u.ip /\ r.reason = u.reason /\ r.is_active /\ r.last_seen = now

(***************************************************************************)
(* Further properties of the classification pass.                          *)
(***************************************************************************)
\* C32: in a pass over a log that does not change, every identity the
\* brute-force query returns has a high_volume flag, no brute_force flag is
\* created or refreshed, and the summary's brute_force count is 0
C32_BruteForceNeverFires ==
    [][\A p \in PassProcs :
          /\ (cp'[p].det = NumDetectors /\ cp'[p].pc = "item") =>
                \A it \in cp'[p].items :
                    \E r \in flags' : r.ip = it.ip /\ r.reason = "high_volume"
          /\ cp'[p].flagged[NumDetectors] = {}
          /\ \A r \in flags' : r.reason # "brute_force"
          /\ cp'[p].pc = "done" => Summary(cp'[p]).brute_force = 0
      ]_vars

\* the brute-force query of a pass returned ip1, which made 201 requests and
\* holds the high_volume flag the first detector of the pass wrote
C32_Witness ==
    /\ cp[1].det = NumDetectors /\ cp[1].pc = "item"
    /\ \E it \in cp[1].items : it.ip = "ip1" /\ it.count > 200
    /\ "ip1" \in cp[1].flagged[1]

(***************************************************************************)
(* Size of the stored window and the end of a lockout.                     *)
(***************************************************************************)
\* C33: the list stored for a key never holds more than the key's limit of
\* entries, however concurrent check_rate_limit calls on the key interleave
C33_StoredAtMostLimit ==
    \A k \in RateKeys :
        Len(cache[k].data) <= (IF k[1] = "rate_limit_auth" THEN 10 ELSE 5)

\* two overlapping calls were both admitted on a key, more requests were
\* admitted than the limit, and the stored list holds exactly the limit
C33_Witness ==
    \E k \in RateKeys :
        /\ Len(allowed[k]) > KeyLimit(k)
        /\ Len(cache[k].data) = KeyLimit(k)
        /\ \A p \in RateProcs : rl[p].key = k /\ rl[p].result = "allow" /\ ~rl[p].err

\* C34: a request whose clock reading is window_size seconds or more after
\* every admitted request of its key is allowed, whatever was rejected in
\* between: rejections do not extend the lockout
C34_LockoutEnds ==
    [][\A p \in RateProcs :
          (rl[p].pc = "decide" /\ rl'[p] # rl[p]
             /\ \A i \in DOMAIN allowed[rl[p].key] :
                   allowed[rl[p].key][i] + 60 <= rl[p].t) =>
              rl'[p].result = "allow"
      ]_vars

\* the key's window was filled at time 0, a request was rejected, and a
\* request sent at 60 or later was admitted into an empty window
C34_Witness ==
    \E p, q \in RateProcs :
        /\ rl[p].result = "reject"
        /\ rl[q].result = "allow" /\ rl[q].n = 0 /\ rl[q].key = rl[p].key
        /\ Len(allowed[rl[q].key]) = KeyLimit(rl[q].key) + 1
        /\ Len(cache[rl[q].key].data) = 1
        /\ cache[rl[q].key].data[1] >= 60

\* C36: a pass run again over the same log leaves the Flag Store with the
\* rows, reasons, counts, details and active states the earlier run left (only
\* last_seen may differ) and returns the same summary
C36_PassIdempotent ==
    \A p \in PassProcs :
        (cp[p].pc = "done" /\ "prev" \in DOMAIN cp[p]) =>
            /\ FlagView = cp[p].prev.view
            /\ Summary(cp[p]) = cp[p].prev.summary

\* the second run has finished after the clock advanced: it refreshed flags,
\* their last_seen is later than their first_seen, and the summary counts
\* five identities as the first did
C36_Witness ==
    /\ cp[1].pc = "done" /\ "prev" \in DOMAIN cp[1]
    /\ cp[1].prev.summary.total = 5
    /\ cp[1].upd # {}
    /\ \E r \in flags : r.last_seen > r.first_seen /\ r.first_seen >= 0

(***************************************************************************)
(* Escalation after an unblock and after a pass.                           *)
(***************************************************************************)
\* C37: an escalation run selects the identities with 3 or more distinct
\* active reasons, and when it ends each of them is in the Block List, so an
\* identity the operator unblocked before the run is inserted again; an
\* unblocked identity whose flags were deactivated below 3 stays unblocked
C37_ReblockedAfterUnblock ==
    [][\A p \in EscProcs : \A ip \in TrackIPs :
          /\ es'[p].ran = es[p].ran + 1 =>
                (ip \in es'[p].selected <=>
                    Cardinality({f.reason : f \in {g \in flags : g.ip = ip /\ g.is_active}}) >= 3)
          /\ (es'[p] # es[p] /\ es'[p].pc = "done") =>
                /\ ip \in es'[p].selected => \E r \in blocked' : r.ip = ip
                /\ (ip \in es'[p].selected /\ ip \notin es'[p].before) =>
                      ip \in es'[p].inserted
                /\ (ip \notin es'[p].selected /\ ip \notin es'[p].before) =>
                      ~(\E r \in blocked' : r.ip = ip)
      ]_vars

\* the operator unblocked ip1, which holds three active reasons, and the
\* escalation run that followed inserted it again; ip2 was unblocked too and
\* stays unblocked with two active reasons
C37_Witness ==
    /\ es[1].pc = "done"
    /\ "ip1" \in es[1].inserted /\ "ip1" \notin es[1].before
    /\ "ip2" \notin es[1].before /\ "ip2" \notin es[1].selected
    /\ runs.commands >= 2
    /\ \E r \in blocked : r.ip = "ip1" /\ r.created_at = now
    /\ ~(\E r \in blocked : r.ip = "ip2")

\* C38: for an identity whose only requests of the trailing hour are more
\* than 100 requests under /admin/, one pass leaves exactly the three active
\* reasons high_volume, sensitive_paths and admin_access and counts it under
\* each, and the escalation run that follows inserts it into the Block List
C38_AdminCountsThrice ==
    [][/\ \A p \in PassProcs :
             (cp'[p] # cp[p] /\ cp'[p].pc = "done") =>
                 /\ {f.reason : f \in {g \in flags' : g.ip = "ip1" /\ g.is_active}}
                       = {"high_volume", "sensitive_paths", "admin_access"}
                 /\ Summary(cp'[p]).high_volume = 1
                 /\ Summary(cp'[p]).sensitive_paths = 1
                 /\ Summary(cp'[p]).admin_access = 1
                 /\ Summary(cp'[p]).total = 3
       /\ \A p \in EscProcs :
             (es'[p] # es[p] /\ es'[p].pc = "done" /\ \E q \in PassProcs : cp[q].pc = "done") =>
                 \E r \in blocked' : r.ip = "ip1"
      ]_vars

\* after one pass over 101 requests to /admin/users/ the escalation run
\* inserted ip1 with the three labels
C38_Witness ==
    /\ cp[1].pc = "done" /\ runs.passes = 1
    /\ log[<<"ip1", AdminPath, 0>>] = 101
    /\ es[1].pc = "done" /\ es[1].inserted = {"ip1"}
    /\ \E r \in blocked :
          /\ r.ip = "ip1"
          /\ r.reason = "Auto-blocked due to multiple suspicious activities"
          /\ r.labels = {"High Request Volume", "Accessing Sensitive Paths",
                         "Admin Panel Access Attempts"}
====
